---- MODULE Spec2Model ----
(***************************************************************************)
(* Data Hub resource tree (components/dataHub/resTree.c).                  *)
(*                                                                         *)
(* The tree is a heap of Entry_t objects taken from a fixed pool.  Every   *)
(* public operation of resTree.c is one action; the helper functions of    *)
(* the file are operators that thread a machine record                     *)
(*   m = [ent, res, fatal, budget, resOk, resDenied, notes, trans,         *)
(*        allocs, frees]                                                   *)
(* through the statements of the C code.  Paths are C strings, modelled as *)
(* sequences of one-character strings.                                     *)
(***************************************************************************)
EXTENDS Integers, Sequences, FiniteSets, TLC

\* ------------------------------------------------------------------ bounds
\* Number of blocks in EntryPool (and in the resource engine's pool): one
\* for the root, one for each of /a, /obs and /obs/x, and a spare one.
MaxEntries == 5
\* Number of entries a call may allocate before the pool refuses: no call of
\* the model asks for more.
MaxBudget == 2
\* Number of blocks in each data sample pool, and in StringPool.
MaxSamples == 2
\* Number of references the sharers of one sample hold at most.
MaxRefs == 2
\* The latest timestamp a caller gives; the clock reads later than that.
MaxTimestamp == 1

\* ------------------------------------------------------- program constants
\* sizeof(entryPtr->name); scaled down so that an over-long name fits in a
\* model path ("obs" is the longest legal name).
HUB_MAX_ENTRY_NAME_BYTES == 4
\* sizeof(absolutePath) in CallResourceTreeChangeHandlers.
HUB_MAX_RESOURCE_PATH_BYTES == 12
\* sizeof(resultBuff) in dataSample_ExtractJson; scaled down.
HUB_MAX_STRING_BYTES == 8

NULL == 0
Ids == 1 .. MaxEntries
RootPtr == 1

RES_FLAG_NEW == "NEW"
RES_FLAG_RELEVANT == "RELEVANT"
RES_FLAG_CLEAR_NEW == "CLEAR_NEW"
RES_FLAG_DELETED == "DELETED"
Flags == {RES_FLAG_NEW, RES_FLAG_RELEVANT, RES_FLAG_CLEAR_NEW, RES_FLAG_DELETED}

ADMIN_ENTRY_TYPE_NAMESPACE == "NAMESPACE"
ADMIN_ENTRY_TYPE_PLACEHOLDER == "PLACEHOLDER"
ADMIN_ENTRY_TYPE_INPUT == "INPUT"
ADMIN_ENTRY_TYPE_OUTPUT == "OUTPUT"
ADMIN_ENTRY_TYPE_OBSERVATION == "OBSERVATION"
EntryTypes == {ADMIN_ENTRY_TYPE_NAMESPACE, ADMIN_ENTRY_TYPE_PLACEHOLDER,
               ADMIN_ENTRY_TYPE_INPUT, ADMIN_ENTRY_TYPE_OUTPUT,
               ADMIN_ENTRY_TYPE_OBSERVATION}

LE_OK == "LE_OK"
LE_NO_MEMORY == "LE_NO_MEMORY"
LE_BAD_PARAMETER == "LE_BAD_PARAMETER"
LE_OVERFLOW == "LE_OVERFLOW"
LE_NOT_FOUND == "LE_NOT_FOUND"
LE_FAULT == "LE_FAULT"

ADMIN_RESOURCE_ADDED == "ADDED"
ADMIN_RESOURCE_REMOVED == "REMOVED"

\* ------------------------------------------------------------------ strings
SLASH == "/"
sA == <<"a">>
sX == <<"x">>
sObs == <<"o", "b", "s">>
\* "obs"
pObs == sObs
\* "obs/x"
pObsX == sObs \o <<SLASH>> \o sX
\* "/obs/x"
pAbsObsX == <<SLASH>> \o sObs \o <<SLASH>> \o sX
\* "/a"
pAbsA == <<SLASH>> \o sA
\* malformed: "obs//x" (empty element) and "/obsx" (a name of
\* HUB_MAX_ENTRY_NAME_BYTES bytes)
pBadEmptyMid == sObs \o <<SLASH, SLASH>> \o sX
pBadLong == <<SLASH>> \o sObs \o sX

\* index of the first '/' at or after position i, or Len+1 (the terminator)
RECURSIVE strchrnul(_, _)
strchrnul(path, i) ==
    IF i > Len(path) THEN Len(path) + 1
    ELSE IF path[i] = SLASH THEN i
    ELSE strchrnul(path, i + 1)

\* strncmp(path, prefix, Len(prefix)) == 0
strncmpEq(path, prefix) ==
    /\ Len(path) >= Len(prefix)
    /\ SubSeq(path, 1, Len(prefix)) = prefix

\* ------------------------------------------------------------------ entries
FreeEntry ==
    [used |-> FALSE, parentPtr |-> NULL, name |-> <<>>, childList |-> <<>>,
     type |-> ADMIN_ENTRY_TYPE_NAMESPACE, flags |-> {}, resourcePtr |-> NULL,
     refCount |-> 0]

\* a block of the resource engine's pool (res_Resource_t)
FreeRes == [used |-> FALSE, kind |-> "none", admin |-> FALSE, flags |-> {}]

Fatal(m) == [m EXCEPT !.fatal = TRUE]

RemoveFromList(list, e) == SelectSeq(list, LAMBDA x : x # e)

\* Which free block the pool hands out cannot be observed by the program
\* (entry references are only compared for equality), so the choice is fixed:
\* the block set aside for the child (parent, name).  The blocks a call
\* allocates and frees are logged in m.allocs / m.frees, which tells the reuse
\* of an entry from the reuse of its block.
BlockFor(parentPtr, name) ==
    IF parentPtr = NULL THEN 1
    ELSE IF parentPtr = 1 /\ name = sA THEN 2
    ELSE IF parentPtr = 1 /\ name = sObs THEN 3
    ELSE IF parentPtr = 3 /\ name = sX THEN 4
    ELSE NULL

\* the block handed out when the block set aside for a child is taken, which
\* is the case when a child of that name is already in the parent's list
SpareBlock == MaxEntries

\* hub_MemAlloc(EntryPool): a free block, or NULL when the pool has none or
\* the allocator refuses (m.budget allocations succeed in a call).
hub_MemAlloc(m, parentPtr, name) ==
    LET p == BlockFor(parentPtr, name)
    IN IF m.budget = 0 \/ p = NULL THEN NULL
       ELSE IF ~m.ent[p].used THEN p
       ELSE IF ~m.ent[SpareBlock].used THEN SpareBlock
       ELSE NULL

resTree_IsDeleted(ent, e) ==
    IF ent[e].type = ADMIN_ENTRY_TYPE_NAMESPACE
    THEN RES_FLAG_DELETED \in ent[e].flags
    ELSE FALSE

\* the child search of resTree_FindChildEx stopping after the first child
FindFirstOnly(ent, list, k, name, withZombies) ==
    IF k > Len(list) THEN NULL
    ELSE IF (withZombies \/ ~resTree_IsDeleted(ent, list[k]))
            /\ ent[list[k]].name = name
         THEN list[k]
         ELSE NULL

RECURSIVE FindInList(_, _, _, _, _)
FindInList(ent, list, k, name, withZombies) ==
    IF k > Len(list) THEN NULL
    ELSE IF (withZombies \/ ~resTree_IsDeleted(ent, list[k]))
            /\ ent[list[k]].name = name
         THEN list[k]
         ELSE FindInList(ent, list, k + 1, name, withZombies)

resTree_FindChildEx(ent, nsRef, name, withZombies) ==
    FindInList(ent, ent[nsRef].childList, 1, name, withZombies)

resTree_FindChild(ent, nsRef, name) == resTree_FindChildEx(ent, nsRef, name, FALSE)

AddChild(m, parentPtr, name, entryPtr) ==
    IF entryPtr = NULL
    THEN LET p == hub_MemAlloc(m, parentPtr, name)
         IN IF p = NULL THEN [m |-> m, rv |-> NULL]
            ELSE IF parentPtr # NULL
                    /\ resTree_FindChildEx(m.ent, parentPtr, name, TRUE) # NULL
            THEN [m |-> Fatal(m), rv |-> NULL]
            ELSE LET e1 == [m.ent EXCEPT ![p] =
                              [used |-> TRUE, parentPtr |-> parentPtr,
                               name |-> name, childList |-> <<>>,
                               type |-> ADMIN_ENTRY_TYPE_NAMESPACE,
                               flags |-> {RES_FLAG_NEW}, resourcePtr |-> NULL,
                               refCount |-> 1]]
                     e2 == IF parentPtr # NULL
                           THEN [e1 EXCEPT ![parentPtr].refCount = @ + 1,
                                           ![parentPtr].childList = Append(@, p)]
                           ELSE e1
                 IN [m |-> [m EXCEPT !.ent = e2, !.budget = @ - 1,
                                     !.allocs = @ \cup {p}],
                     rv |-> p]
    ELSE IF \/ m.ent[entryPtr].type # ADMIN_ENTRY_TYPE_NAMESPACE
            \/ m.ent[entryPtr].parentPtr # parentPtr
            \/ m.ent[entryPtr].childList # <<>>
         THEN [m |-> Fatal(m), rv |-> NULL]
         ELSE [m |-> [m EXCEPT !.ent[entryPtr].flags = {RES_FLAG_NEW}],
               rv |-> entryPtr]

RECURSIVE le_mem_Release(_, _)
RECURSIVE EntryDestructor(_, _)

\* EntryDestructor without le_mem_Release(entryPtr->parentPtr)
DestructorWithoutRelease(m, entryPtr) ==
    IF m.ent[entryPtr].parentPtr = NULL THEN Fatal(m)
    ELSE IF m.ent[entryPtr].childList # <<>> THEN Fatal(m)
    ELSE [m EXCEPT !.ent[m.ent[entryPtr].parentPtr].childList =
                       RemoveFromList(@, entryPtr)]

\* EntryDestructor without le_dls_Remove: the entry stays in its parent's list
DestructorWithoutUnlink(m, entryPtr) ==
    IF m.ent[entryPtr].parentPtr = NULL THEN Fatal(m)
    ELSE IF m.ent[entryPtr].childList # <<>> THEN Fatal(m)
    ELSE le_mem_Release(m, m.ent[entryPtr].parentPtr)

EntryDestructor(m, entryPtr) ==
    IF m.ent[entryPtr].parentPtr = NULL THEN Fatal(m)
    ELSE IF m.ent[entryPtr].childList # <<>> THEN Fatal(m)
    ELSE LET parent == m.ent[entryPtr].parentPtr
             m1 == [m EXCEPT !.ent[parent].childList = RemoveFromList(@, entryPtr)]
         IN le_mem_Release(m1, parent)

\* le_mem_Release on a block of EntryPool: drop one count; on the last one
\* run the pool's destructor, then return the block to the pool.
le_mem_Release(m, e) ==
    IF m.ent[e].refCount > 1
    THEN [m EXCEPT !.ent[e].refCount = @ - 1]
    ELSE LET m1 == EntryDestructor(m, e)
         IN IF m1.fatal THEN m1
            ELSE [m1 EXCEPT !.ent[e] = FreeEntry, !.frees = @ \cup {e}]

le_mem_AddRef(m, e) == [m EXCEPT !.ent[e].refCount = @ + 1]

\* hub_IsResourcePathMalformed: empty path elements and over-long names
RECURSIVE hub_IsResourcePathMalformedFrom(_, _)
hub_IsResourcePathMalformedFrom(path, i) ==
    IF i > Len(path) THEN FALSE
    ELSE LET j == IF path[i] = SLASH THEN i + 1 ELSE i
             nameLen == strchrnul(path, j) - j
         IN IF nameLen = 0 \/ nameLen >= HUB_MAX_ENTRY_NAME_BYTES THEN TRUE
            ELSE hub_IsResourcePathMalformedFrom(path, j + nameLen)

hub_IsResourcePathMalformed(path) == hub_IsResourcePathMalformedFrom(path, 1)

\* FindEntry: NULL when a path element is missing or is a zombie; ABORTED
\* stands for a failed LE_ASSERT on the element length.
ABORTED == -1

RECURSIVE FindEntryFrom(_, _, _, _)
FindEntryFrom(ent, currentEntry, path, i) ==
    IF i > Len(path) THEN currentEntry
    ELSE LET j == IF path[i] = SLASH THEN i + 1 ELSE i
             nameLen == strchrnul(path, j) - j
             entryName == SubSeq(path, j, j + nameLen - 1)
             childPtr == resTree_FindChildEx(ent, currentEntry, entryName, TRUE)
         IN IF nameLen = 0 \/ nameLen >= HUB_MAX_ENTRY_NAME_BYTES THEN ABORTED
            ELSE IF childPtr = NULL \/ resTree_IsDeleted(ent, childPtr) THEN NULL
            ELSE FindEntryFrom(ent, childPtr, path, j + nameLen)

FindEntry(ent, baseNamespace, path) == FindEntryFrom(ent, baseNamespace, path, 1)

\* the cleanup loop of CreateEntry: release from currentEntry up to firstNewEntry
RECURSIVE CreateEntryCleanup(_, _, _)
CreateEntryCleanup(m, currentEntry, firstNewEntry) ==
    IF firstNewEntry = NULL THEN m
    ELSE LET tmp == currentEntry
             next == m.ent[currentEntry].parentPtr
             m1 == le_mem_Release(m, tmp)
         IN IF m1.fatal \/ tmp = firstNewEntry THEN m1
            ELSE CreateEntryCleanup(m1, next, firstNewEntry)

RECURSIVE CreateEntryFrom(_, _, _, _, _)
CreateEntryFrom(m, path, currentEntry, firstNewEntry, i) ==
    IF i > Len(path) THEN [m |-> m, rv |-> currentEntry]
    ELSE LET j == IF path[i] = SLASH THEN i + 1 ELSE i
             term == strchrnul(path, j)
             nameLen == term - j
             entryName == SubSeq(path, j, j + nameLen - 1)
             childPtr == resTree_FindChildEx(m.ent, currentEntry, entryName, TRUE)
         IN IF nameLen = 0 \/ nameLen >= HUB_MAX_ENTRY_NAME_BYTES
            THEN [m |-> Fatal(m), rv |-> NULL]
            ELSE IF childPtr # NULL /\ term > Len(path)
            THEN [m |-> Fatal(m), rv |-> NULL]
            ELSE IF childPtr = NULL \/ resTree_IsDeleted(m.ent, childPtr)
            THEN LET r == AddChild(m, currentEntry, entryName, childPtr)
                 IN IF r.m.fatal THEN [m |-> r.m, rv |-> NULL]
                    ELSE IF r.rv = NULL
                    THEN [m |-> CreateEntryCleanup(r.m, currentEntry, firstNewEntry),
                          rv |-> NULL]
                    ELSE CreateEntryFrom(r.m, path, r.rv,
                             IF firstNewEntry = NULL THEN r.rv ELSE firstNewEntry,
                             j + nameLen)
            ELSE CreateEntryFrom(m, path, childPtr, firstNewEntry, j + nameLen)

CreateEntry(m, baseNamespace, path) == CreateEntryFrom(m, path, baseNamespace, NULL, 1)

\* resTree_GetEntry without the lookup: the path is always created
GetEntryWithoutFind(m, baseNamespace, path) ==
    IF hub_IsResourcePathMalformed(path)
    THEN [m |-> m, ret |-> LE_BAD_PARAMETER, out |-> NULL]
    ELSE LET c == CreateEntry(m, baseNamespace, path)
         IN [m |-> c.m,
             ret |-> IF c.rv = NULL THEN LE_NO_MEMORY ELSE LE_OK,
             out |-> c.rv]

resTree_GetEntry(m, baseNamespace, path) ==
    IF hub_IsResourcePathMalformed(path)
    THEN [m |-> m, ret |-> LE_BAD_PARAMETER, out |-> NULL]
    ELSE LET f == FindEntry(m.ent, baseNamespace, path)
         IN IF f = ABORTED THEN [m |-> Fatal(m), ret |-> LE_OK, out |-> NULL]
            ELSE IF f # NULL THEN [m |-> m, ret |-> LE_OK, out |-> f]
            ELSE LET c == CreateEntry(m, baseNamespace, path)
                 IN [m |-> c.m,
                     ret |-> IF c.rv = NULL THEN LE_NO_MEMORY ELSE LE_OK,
                     out |-> c.rv]

resTree_GetRoot == RootPtr

resTree_FindEntry(ent, baseNamespace, path) ==
    IF ~hub_IsResourcePathMalformed(path)
    THEN FindEntry(ent, baseNamespace, path)
    ELSE NULL

resTree_FindEntryAtAbsolutePath(ent, path) ==
    IF path = <<>> \/ path[1] # SLASH THEN NULL
    ELSE resTree_FindEntry(ent, resTree_GetRoot, Tail(path))

resTree_IsResource(ent, e) ==
    IF ent[e].type = ADMIN_ENTRY_TYPE_NAMESPACE THEN FALSE
    ELSE ent[e].resourcePtr # NULL

\* --------------------------------------------------- resource engine (res_*)
\* allocate a placeholder resource for an entry (the block with the entry's
\* index); NULL when the engine is out of memory
ResAlloc(m, kind, entryRef) ==
    IF ~m.resOk \/ m.res[entryRef].used
    THEN [m |-> [m EXCEPT !.resDenied = TRUE], rv |-> NULL]
    ELSE [m |-> [m EXCEPT !.res[entryRef] = [used |-> TRUE, kind |-> kind,
                                             admin |-> FALSE,
                                             flags |-> {RES_FLAG_NEW}]],
          rv |-> entryRef]

res_CreateIoPlaceholder(m, entryRef) == ResAlloc(m, "ioPlaceholder", entryRef)
res_CreateObsPlaceholder(m, entryRef) == ResAlloc(m, "obsPlaceholder", entryRef)
res_ConvertPlaceholderToInput(m, r) == [m EXCEPT !.res[r].kind = "input"]
res_ConvertPlaceholderToOutput(m, r) == [m EXCEPT !.res[r].kind = "output"]
res_ConvertPlaceholderToObs(m, r) == [m EXCEPT !.res[r].kind = "observation"]
res_ConvertIoToPlaceholder(m, r) == [m EXCEPT !.res[r].kind = "ioPlaceholder"]
res_HasAdminSettings(res, r) == res[r].admin
\* le_mem_Release(ioPtr) and res_DeleteObservation: the resource is freed
res_Release(m, r) == [m EXCEPT !.res[r] = FreeRes]
res_DeleteObservation(m, r) == res_Release(m, r)
res_IsNew(res, r) == RES_FLAG_NEW \in res[r].flags

\* ------------------------------------------------------------ snapshot flags
resTree_IsNew(m, e) ==
    IF m.ent[e].type = ADMIN_ENTRY_TYPE_NAMESPACE
    THEN RES_FLAG_NEW \in m.ent[e].flags
    ELSE res_IsNew(m.res, m.ent[e].resourcePtr)

resTree_SetDeleted(m, e) ==
    IF m.ent[e].type # ADMIN_ENTRY_TYPE_NAMESPACE THEN Fatal(m)
    ELSE IF RES_FLAG_NEW \in m.ent[e].flags THEN Fatal(m)
    ELSE [m EXCEPT !.ent[e].flags = @ \cup {RES_FLAG_DELETED}]

\* snapshot_RecordNodeDeletion: a node that is not new is kept as a tombstone
\* (one more count, DELETED set) until the next flush; a new node is not.
snapshot_RecordNodeDeletion(m, e) ==
    IF resTree_IsNew(m, e) THEN m
    ELSE resTree_SetDeleted(le_mem_AddRef(m, e), e)

\* ------------------------------------------------------------------- paths
\* le_utf8_Copy(dest, src, destSize, &len): copies what fits before the
\* terminator, LE_OVERFLOW when src was truncated
le_utf8_Copy(src, destSize) ==
    IF Len(src) <= destSize - 1
    THEN [ok |-> TRUE, out |-> src]
    ELSE [ok |-> FALSE, out |-> SubSeq(src, 1, destSize - 1)]

\* the result is [rc, len, str]: rc is LE_OK when the C function returns the
\* number of bytes written (len), "FATAL" when LE_ASSERT(stringBuffSize > 0)
\* fails; str is what the buffer then holds
RECURSIVE resTree_GetPath(_, _, _, _)
\* resTree_GetPath without the leading '/' for paths relative to the root
GetPathWithoutRootSlash(ent, stringBuffSize, baseNamespace, entryRef) ==
    IF entryRef = baseNamespace
    THEN IF stringBuffSize > 0 THEN [rc |-> LE_OK, len |-> 0, str |-> <<>>]
         ELSE [rc |-> "FATAL", len |-> 0, str |-> <<>>]
    ELSE IF ent[entryRef].parentPtr = baseNamespace
    THEN LET pre == [ok |-> TRUE, out |-> <<>>]
             c == le_utf8_Copy(ent[entryRef].name, stringBuffSize - Len(pre.out))
         IN IF ~pre.ok THEN [rc |-> LE_OVERFLOW, len |-> 0, str |-> pre.out]
            ELSE IF ~c.ok
            THEN [rc |-> LE_OVERFLOW, len |-> 0, str |-> pre.out \o c.out]
            ELSE [rc |-> LE_OK, len |-> Len(pre.out) + Len(c.out),
                  str |-> pre.out \o c.out]
    ELSE IF entryRef = RootPtr THEN [rc |-> LE_NOT_FOUND, len |-> 0, str |-> <<>>]
    ELSE LET result == resTree_GetPath(ent, stringBuffSize, baseNamespace,
                                       ent[entryRef].parentPtr)
         IN IF result.rc # LE_OK THEN result
            ELSE LET size1 == stringBuffSize - result.len
                     s == le_utf8_Copy(<<SLASH>>, size1)
                     size2 == size1 - Len(s.out)
                     c == le_utf8_Copy(ent[entryRef].name, size2)
                 IN IF ~s.ok
                    THEN [rc |-> LE_OVERFLOW, len |-> 0, str |-> result.str \o s.out]
                    ELSE IF ~c.ok
                    THEN [rc |-> LE_OVERFLOW, len |-> 0,
                          str |-> result.str \o s.out \o c.out]
                    ELSE [rc |-> LE_OK, len |-> result.len + Len(s.out) + Len(c.out),
                          str |-> result.str \o s.out \o c.out]

\* resTree_GetPath taking the root, when the walk up reaches it, for the base
GetPathRootAsBase(ent, stringBuffSize, baseNamespace, entryRef) ==
    IF entryRef = baseNamespace
    THEN IF stringBuffSize > 0 THEN [rc |-> LE_OK, len |-> 0, str |-> <<>>]
         ELSE [rc |-> "FATAL", len |-> 0, str |-> <<>>]
    ELSE IF ent[entryRef].parentPtr = baseNamespace
    THEN LET pre == IF baseNamespace = RootPtr
                    THEN le_utf8_Copy(<<SLASH>>, stringBuffSize)
                    ELSE [ok |-> TRUE, out |-> <<>>]
             c == le_utf8_Copy(ent[entryRef].name, stringBuffSize - Len(pre.out))
         IN IF ~pre.ok THEN [rc |-> LE_OVERFLOW, len |-> 0, str |-> pre.out]
            ELSE IF ~c.ok
            THEN [rc |-> LE_OVERFLOW, len |-> 0, str |-> pre.out \o c.out]
            ELSE [rc |-> LE_OK, len |-> Len(pre.out) + Len(c.out),
                  str |-> pre.out \o c.out]
    ELSE IF entryRef = RootPtr THEN [rc |-> LE_OK, len |-> 0, str |-> <<>>]
    ELSE LET result == resTree_GetPath(ent, stringBuffSize, baseNamespace,
                                       ent[entryRef].parentPtr)
         IN IF result.rc # LE_OK THEN result
            ELSE LET size1 == stringBuffSize - result.len
                     s == le_utf8_Copy(<<SLASH>>, size1)
                     size2 == size1 - Len(s.out)
                     c == le_utf8_Copy(ent[entryRef].name, size2)
                 IN IF ~s.ok
                    THEN [rc |-> LE_OVERFLOW, len |-> 0, str |-> result.str \o s.out]
                    ELSE IF ~c.ok
                    THEN [rc |-> LE_OVERFLOW, len |-> 0,
                          str |-> result.str \o s.out \o c.out]
                    ELSE [rc |-> LE_OK, len |-> result.len + Len(s.out) + Len(c.out),
                          str |-> result.str \o s.out \o c.out]

resTree_GetPath(ent, stringBuffSize, baseNamespace, entryRef) ==
    IF entryRef = baseNamespace
    THEN IF stringBuffSize > 0 THEN [rc |-> LE_OK, len |-> 0, str |-> <<>>]
         ELSE [rc |-> "FATAL", len |-> 0, str |-> <<>>]
    ELSE IF ent[entryRef].parentPtr = baseNamespace
    THEN LET pre == IF baseNamespace = RootPtr
                    THEN le_utf8_Copy(<<SLASH>>, stringBuffSize)
                    ELSE [ok |-> TRUE, out |-> <<>>]
             c == le_utf8_Copy(ent[entryRef].name, stringBuffSize - Len(pre.out))
         IN IF ~pre.ok THEN [rc |-> LE_OVERFLOW, len |-> 0, str |-> pre.out]
            ELSE IF ~c.ok
            THEN [rc |-> LE_OVERFLOW, len |-> 0, str |-> pre.out \o c.out]
            ELSE [rc |-> LE_OK, len |-> Len(pre.out) + Len(c.out),
                  str |-> pre.out \o c.out]
    ELSE IF entryRef = RootPtr THEN [rc |-> LE_NOT_FOUND, len |-> 0, str |-> <<>>]
    ELSE LET result == resTree_GetPath(ent, stringBuffSize, baseNamespace,
                                       ent[entryRef].parentPtr)
         IN IF result.rc # LE_OK THEN result
            ELSE LET size1 == stringBuffSize - result.len
                     s == le_utf8_Copy(<<SLASH>>, size1)
                     size2 == size1 - Len(s.out)
                     c == le_utf8_Copy(ent[entryRef].name, size2)
                 IN IF ~s.ok
                    THEN [rc |-> LE_OVERFLOW, len |-> 0, str |-> result.str \o s.out]
                    ELSE IF ~c.ok
                    THEN [rc |-> LE_OVERFLOW, len |-> 0,
                          str |-> result.str \o s.out \o c.out]
                    ELSE [rc |-> LE_OK, len |-> result.len + Len(s.out) + Len(c.out),
                          str |-> result.str \o s.out \o c.out]

\* what a handler called with absolutePath for entryRef finds in the tree at
\* the time of the call: the entry the path resolves to, and the entry's type
\* and resource
TreeAsSeenByHandler(m, absolutePath, entryRef) ==
    [resolved |-> resTree_FindEntryAtAbsolutePath(m.ent, absolutePath),
     type |-> m.ent[entryRef].type,
     resourcePtr |-> m.ent[entryRef].resourcePtr,
     attached |-> /\ m.ent[entryRef].type # ADMIN_ENTRY_TYPE_NAMESPACE
                  /\ m.ent[entryRef].resourcePtr # NULL
                  /\ m.res[m.ent[entryRef].resourcePtr].used]

\* CallResourceTreeChangeHandlers handing the change to the handlers twice
NotifyTwice(m, entryRef, entryType, resourceOperationType) ==
    LET absolutePath == resTree_GetPath(m.ent, HUB_MAX_RESOURCE_PATH_BYTES,
                                        RootPtr, entryRef).str
        call == [path |-> absolutePath, type |-> entryType,
                 op |-> resourceOperationType, entry |-> entryRef]
        view == TreeAsSeenByHandler(m, absolutePath, entryRef)
    IN [m EXCEPT !.notes = @ \o <<call, call>>, !.views = @ \o <<view, view>>]

\* CallResourceTreeChangeHandlers reporting every change as an addition
NotifyAdded(m, entryRef, entryType, resourceOperationType) ==
    LET absolutePath == resTree_GetPath(m.ent, HUB_MAX_RESOURCE_PATH_BYTES,
                                        RootPtr, entryRef).str
    IN [m EXCEPT !.notes = Append(@, [path |-> absolutePath, type |-> entryType,
                                      op |-> ADMIN_RESOURCE_ADDED,
                                      entry |-> entryRef]),
                 !.views = Append(@, TreeAsSeenByHandler(m, absolutePath, entryRef))]

\* admin_CallResourceTreeChangeHandlers is recorded in m.notes, and the tree
\* as it is during the call in m.views
CallResourceTreeChangeHandlers(m, entryRef, entryType, resourceOperationType) ==
    LET absolutePath == resTree_GetPath(m.ent, HUB_MAX_RESOURCE_PATH_BYTES,
                                        RootPtr, entryRef).str
    IN [m EXCEPT !.notes = Append(@, [path |-> absolutePath, type |-> entryType,
                                      op |-> resourceOperationType,
                                      entry |-> entryRef]),
                 !.views = Append(@, TreeAsSeenByHandler(m, absolutePath, entryRef))]

\* an assignment to entryRef->type, recorded in m.trans
SetType(m, e, type, by) ==
    [m EXCEPT !.ent[e].type = type,
              !.trans = Append(@, [entry |-> e, from |-> m.ent[e].type,
                                   to |-> type, by |-> by])]

\* the two LE_ASSERTs of resTree_GetObsNamespace on what resTree_GetEntry gave
GetObsNamespaceChecked(r) ==
    IF r.m.fatal THEN [m |-> r.m, rv |-> NULL]
    ELSE IF r.ret # LE_OK \/ r.out = NULL THEN [m |-> Fatal(r.m), rv |-> NULL]
    ELSE [m |-> r.m, rv |-> r.out]

resTree_GetObsNamespace(m) ==
    GetObsNamespaceChecked(resTree_GetEntry(m, resTree_GetRoot, pObs))

\* the tail of CreatePlaceholderForNamespace without the test of
\* placeholderPtr: the entry becomes a placeholder whatever the engine returned
SetPlaceholderUnchecked(p, entryRef) ==
    [m |-> SetType([p.m EXCEPT !.ent[entryRef].resourcePtr = p.rv,
                               !.ent[entryRef].flags = {}],
                   entryRef, ADMIN_ENTRY_TYPE_PLACEHOLDER,
                   "CreatePlaceholderForNamespace"),
     ret |-> LE_OK]

\* the tail of CreatePlaceholderForNamespace: p is what the engine returned
SetPlaceholder(p, entryRef) ==
    IF p.rv # NULL
    THEN [m |-> SetType([p.m EXCEPT !.ent[entryRef].resourcePtr = p.rv,
                                    !.ent[entryRef].flags = {}],
                        entryRef, ADMIN_ENTRY_TYPE_PLACEHOLDER,
                        "CreatePlaceholderForNamespace"),
          ret |-> LE_OK]
    ELSE [m |-> p.m, ret |-> LE_NO_MEMORY]

\* the choice between the two kinds of placeholder: o is what
\* resTree_GetObsNamespace() returned
ChoosePlaceholder(o, baseNamespace, path, entryRef) ==
    IF o.m.fatal THEN [m |-> o.m, ret |-> LE_OK]
    ELSE SetPlaceholder(IF (baseNamespace = o.rv)
                           \/ strncmpEq(path, <<SLASH>> \o sObs \o <<SLASH>>)
                        THEN res_CreateObsPlaceholder(o.m, entryRef)
                        ELSE res_CreateIoPlaceholder(o.m, entryRef),
                        entryRef)

CreatePlaceholderForNamespace(m, baseNamespace, path, entryRef) ==
    IF m.ent[entryRef].type # ADMIN_ENTRY_TYPE_NAMESPACE
    THEN [m |-> Fatal(m), ret |-> LE_OK]
    ELSE ChoosePlaceholder(resTree_GetObsNamespace(m), baseNamespace, path, entryRef)

\* the end of resTree_GetResource: p is what CreatePlaceholderForNamespace
\* returned for entryRef; on failure an entry this call created is released
GetResourcePlaceholder(p, entryRef, createdEntry) ==
    IF p.m.fatal THEN [m |-> p.m, ret |-> LE_OK, out |-> NULL]
    ELSE IF p.ret = LE_OK
    THEN [m |-> p.m, ret |-> LE_OK, out |-> entryRef]
    ELSE [m |-> IF createdEntry THEN le_mem_Release(p.m, entryRef) ELSE p.m,
          ret |-> LE_NO_MEMORY, out |-> NULL]

\* resTree_GetResource once the entry is there: c is [m, rv], the entry found
\* or what CreateEntry returned
GetResourceEntry(c, baseNamespace, path, createdEntry) ==
    IF c.m.fatal THEN [m |-> c.m, ret |-> LE_OK, out |-> NULL]
    ELSE IF c.rv = NULL THEN [m |-> c.m, ret |-> LE_NO_MEMORY, out |-> NULL]
    ELSE IF c.m.ent[c.rv].type # ADMIN_ENTRY_TYPE_NAMESPACE
    THEN [m |-> c.m, ret |-> LE_OK, out |-> c.rv]
    ELSE GetResourcePlaceholder(
             CreatePlaceholderForNamespace(c.m, baseNamespace, path, c.rv),
             c.rv, createdEntry)

\* f is what FindEntry returned
GetResourceFound(m, baseNamespace, path, f) ==
    IF f = ABORTED THEN [m |-> Fatal(m), ret |-> LE_OK, out |-> NULL]
    ELSE IF f = NULL
    THEN GetResourceEntry(CreateEntry(m, baseNamespace, path), baseNamespace, path, TRUE)
    ELSE GetResourceEntry([m |-> m, rv |-> f], baseNamespace, path, FALSE)

\* resTree_GetResource without the test of hub_IsResourcePathMalformed
GetResourceUnchecked(m, baseNamespace, path) ==
    GetResourceFound(m, baseNamespace, path, FindEntry(m.ent, baseNamespace, path))

resTree_GetResource(m, baseNamespace, path) ==
    IF hub_IsResourcePathMalformed(path)
    THEN [m |-> m, ret |-> LE_BAD_PARAMETER, out |-> NULL]
    ELSE GetResourceFound(m, baseNamespace, path, FindEntry(m.ent, baseNamespace, path))

\* r is what resTree_GetResource returned
CreateInputOn(r) ==
    IF r.m.fatal \/ r.ret # LE_OK THEN [m |-> r.m, ret |-> r.ret, out |-> NULL]
    ELSE IF r.m.ent[r.out].type # ADMIN_ENTRY_TYPE_PLACEHOLDER
    THEN [m |-> Fatal(r.m), ret |-> LE_OK, out |-> NULL]
    ELSE LET m1 == SetType(r.m, r.out, ADMIN_ENTRY_TYPE_INPUT, "resTree_CreateInput")
             m2 == res_ConvertPlaceholderToInput(m1, m1.ent[r.out].resourcePtr)
             m3 == CallResourceTreeChangeHandlers(m2, r.out,
                       ADMIN_ENTRY_TYPE_INPUT, ADMIN_RESOURCE_ADDED)
         IN [m |-> m3, ret |-> LE_OK, out |-> r.out]

resTree_CreateInput(m, baseNamespace, path) ==
    CreateInputOn(resTree_GetResource(m, baseNamespace, path))

CreateOutputOn(r) ==
    IF r.m.fatal \/ r.ret # LE_OK THEN [m |-> r.m, ret |-> r.ret, out |-> NULL]
    ELSE IF r.m.ent[r.out].type # ADMIN_ENTRY_TYPE_PLACEHOLDER
    THEN [m |-> Fatal(r.m), ret |-> LE_OK, out |-> NULL]
    ELSE LET m1 == SetType(r.m, r.out, ADMIN_ENTRY_TYPE_OUTPUT, "resTree_CreateOutput")
             m2 == res_ConvertPlaceholderToOutput(m1, m1.ent[r.out].resourcePtr)
             m3 == CallResourceTreeChangeHandlers(m2, r.out,
                       ADMIN_ENTRY_TYPE_OUTPUT, ADMIN_RESOURCE_ADDED)
         IN [m |-> m3, ret |-> LE_OK, out |-> r.out]

resTree_CreateOutput(m, baseNamespace, path) ==
    CreateOutputOn(resTree_GetResource(m, baseNamespace, path))

\* resTree_GetObservation without the refusal of inputs and outputs
GetObservationOnAny(r) ==
    IF r.m.fatal \/ r.ret # LE_OK THEN [m |-> r.m, ret |-> r.ret, out |-> NULL]
    ELSE IF r.m.ent[r.out].type = ADMIN_ENTRY_TYPE_PLACEHOLDER
    THEN [m |-> CallResourceTreeChangeHandlers(
                    res_ConvertPlaceholderToObs(
                        SetType(r.m, r.out, ADMIN_ENTRY_TYPE_OBSERVATION,
                                "resTree_GetObservation"),
                        r.m.ent[r.out].resourcePtr),
                    r.out, ADMIN_ENTRY_TYPE_OBSERVATION, ADMIN_RESOURCE_ADDED),
          ret |-> LE_OK, out |-> r.out]
    ELSE [m |-> r.m, ret |-> LE_OK, out |-> r.out]

\* resTree_GetObservation calling the change handlers for an observation that
\* is already there
GetObservationOnNotifying(r) ==
    IF r.m.fatal \/ r.ret # LE_OK THEN [m |-> r.m, ret |-> r.ret, out |-> NULL]
    ELSE IF r.m.ent[r.out].type \in {ADMIN_ENTRY_TYPE_PLACEHOLDER,
                                     ADMIN_ENTRY_TYPE_OBSERVATION}
    THEN [m |-> CallResourceTreeChangeHandlers(
                    res_ConvertPlaceholderToObs(
                        SetType(r.m, r.out, ADMIN_ENTRY_TYPE_OBSERVATION,
                                "resTree_GetObservation"),
                        r.m.ent[r.out].resourcePtr),
                    r.out, ADMIN_ENTRY_TYPE_OBSERVATION, ADMIN_RESOURCE_ADDED),
          ret |-> LE_OK, out |-> r.out]
    ELSE [m |-> r.m, ret |-> LE_BAD_PARAMETER, out |-> NULL]

GetObservationOn(r) ==
    IF r.m.fatal \/ r.ret # LE_OK THEN [m |-> r.m, ret |-> r.ret, out |-> NULL]
    ELSE IF r.m.ent[r.out].type = ADMIN_ENTRY_TYPE_PLACEHOLDER
    THEN LET m1 == SetType(r.m, r.out, ADMIN_ENTRY_TYPE_OBSERVATION,
                           "resTree_GetObservation")
             m2 == res_ConvertPlaceholderToObs(m1, m1.ent[r.out].resourcePtr)
             m3 == CallResourceTreeChangeHandlers(m2, r.out,
                       ADMIN_ENTRY_TYPE_OBSERVATION, ADMIN_RESOURCE_ADDED)
         IN [m |-> m3, ret |-> LE_OK, out |-> r.out]
    ELSE IF r.m.ent[r.out].type # ADMIN_ENTRY_TYPE_OBSERVATION
    THEN [m |-> r.m, ret |-> LE_BAD_PARAMETER, out |-> NULL]
    ELSE [m |-> r.m, ret |-> LE_OK, out |-> r.out]

resTree_GetObservation(m, baseNamespace, path) ==
    GetObservationOn(resTree_GetResource(m, baseNamespace, path))

\* the else branch of resTree_DeleteIO: the entry becomes a namespace again
DetachIO(m1, entryRef, ioPtr) ==
    LET m2 == SetType([m1 EXCEPT !.ent[entryRef].flags = {},
                                 !.ent[entryRef].resourcePtr = NULL],
                      entryRef, ADMIN_ENTRY_TYPE_NAMESPACE, "resTree_DeleteIO")
        m3 == res_Release(m2, ioPtr)
        m4 == snapshot_RecordNodeDeletion(m3, entryRef)
    IN IF m4.fatal THEN m4 ELSE le_mem_Release(m4, entryRef)

\* resTree_DeleteIO without the test of res_HasAdminSettings
DeleteIOIgnoringAdminSettings(m, entryRef) ==
    DetachIO(CallResourceTreeChangeHandlers(m, entryRef, m.ent[entryRef].type,
                                            ADMIN_RESOURCE_REMOVED),
             entryRef, m.ent[entryRef].resourcePtr)

\* resTree_DeleteIO that also drops the entry's own reference when it keeps
\* the entry as a placeholder
DeleteIOReleasingPlaceholder(m, entryRef) ==
    LET ioPtr == m.ent[entryRef].resourcePtr
        m1 == CallResourceTreeChangeHandlers(m, entryRef, m.ent[entryRef].type,
                                             ADMIN_RESOURCE_REMOVED)
    IN IF res_HasAdminSettings(m1.res, ioPtr)
       THEN le_mem_Release(
                res_ConvertIoToPlaceholder(
                    SetType(m1, entryRef, ADMIN_ENTRY_TYPE_PLACEHOLDER,
                            "resTree_DeleteIO"),
                    ioPtr),
                entryRef)
       ELSE DetachIO(m1, entryRef, ioPtr)

resTree_DeleteIO(m, entryRef) ==
    LET ioPtr == m.ent[entryRef].resourcePtr
        m1 == CallResourceTreeChangeHandlers(m, entryRef, m.ent[entryRef].type,
                                             ADMIN_RESOURCE_REMOVED)
    IN IF res_HasAdminSettings(m1.res, ioPtr)
       THEN res_ConvertIoToPlaceholder(
                SetType(m1, entryRef, ADMIN_ENTRY_TYPE_PLACEHOLDER, "resTree_DeleteIO"),
                ioPtr)
       ELSE DetachIO(m1, entryRef, ioPtr)

resTree_DeleteObservation(m, obsEntry) ==
    LET m1 == CallResourceTreeChangeHandlers(m, obsEntry,
                  ADMIN_ENTRY_TYPE_OBSERVATION, ADMIN_RESOURCE_REMOVED)
        m2 == res_DeleteObservation(m1, m1.ent[obsEntry].resourcePtr)
        m3 == SetType([m2 EXCEPT !.ent[obsEntry].flags = {},
                                 !.ent[obsEntry].resourcePtr = NULL],
                      obsEntry, ADMIN_ENTRY_TYPE_NAMESPACE, "resTree_DeleteObservation")
        m4 == snapshot_RecordNodeDeletion(m3, obsEntry)
    IN IF m4.fatal THEN m4 ELSE le_mem_Release(m4, obsEntry)

resTree_SetRelevance(m, e, relevant) ==
    IF m.ent[e].type = ADMIN_ENTRY_TYPE_NAMESPACE
    THEN IF relevant
         THEN [m EXCEPT !.ent[e].flags = @ \cup {RES_FLAG_RELEVANT}]
         ELSE [m EXCEPT !.ent[e].flags = @ \ {RES_FLAG_RELEVANT}]
    ELSE IF relevant
         THEN [m EXCEPT !.res[m.ent[e].resourcePtr].flags = @ \cup {RES_FLAG_RELEVANT}]
         ELSE [m EXCEPT !.res[m.ent[e].resourcePtr].flags = @ \ {RES_FLAG_RELEVANT}]

\* resTree_SetClearNewnessFlag setting the neighbouring bit, RES_FLAG_NEW
SetNewFlag(m, e) ==
    IF m.ent[e].type = ADMIN_ENTRY_TYPE_NAMESPACE
    THEN [m EXCEPT !.ent[e].flags = @ \cup {RES_FLAG_NEW}]
    ELSE [m EXCEPT !.res[m.ent[e].resourcePtr].flags = @ \cup {RES_FLAG_NEW}]

resTree_SetClearNewnessFlag(m, e) ==
    IF m.ent[e].type = ADMIN_ENTRY_TYPE_NAMESPACE
    THEN [m EXCEPT !.ent[e].flags = @ \cup {RES_FLAG_CLEAR_NEW}]
    ELSE [m EXCEPT !.res[m.ent[e].resourcePtr].flags = @ \cup {RES_FLAG_CLEAR_NEW}]

\* resTree_ClearNewness clearing the whole flag word
ClearAllFlags(m, e) ==
    IF m.ent[e].type = ADMIN_ENTRY_TYPE_NAMESPACE
    THEN [m EXCEPT !.ent[e].flags = {}]
    ELSE [m EXCEPT !.res[m.ent[e].resourcePtr].flags = {}]

\* resTree_ClearNewness clearing RES_FLAG_CLEAR_NEW but not RES_FLAG_NEW
ClearCommitFlagOnly(m, e) ==
    IF m.ent[e].type = ADMIN_ENTRY_TYPE_NAMESPACE
    THEN [m EXCEPT !.ent[e].flags = @ \ {RES_FLAG_CLEAR_NEW}]
    ELSE [m EXCEPT !.res[m.ent[e].resourcePtr].flags = @ \ {RES_FLAG_CLEAR_NEW}]

resTree_ClearNewness(m, e) ==
    IF m.ent[e].type = ADMIN_ENTRY_TYPE_NAMESPACE
    THEN [m EXCEPT !.ent[e].flags = (@ \ {RES_FLAG_NEW}) \ {RES_FLAG_CLEAR_NEW}]
    ELSE [m EXCEPT !.res[m.ent[e].resourcePtr].flags =
                       (@ \ {RES_FLAG_NEW}) \ {RES_FLAG_CLEAR_NEW}]

\* resTree_SetDefault / resTree_RemoveDefault forward to the engine, which
\* then has (or no longer has) an administrative setting on the resource
resTree_SetDefault(m, e) == [m EXCEPT !.res[m.ent[e].resourcePtr].admin = TRUE]
resTree_RemoveDefault(m, e) == [m EXCEPT !.res[m.ent[e].resourcePtr].admin = FALSE]

res_IsNewnessClearRequired(res, r) == RES_FLAG_CLEAR_NEW \in res[r].flags

resTree_IsNewnessClearRequired(m, e) ==
    IF m.ent[e].type = ADMIN_ENTRY_TYPE_NAMESPACE
    THEN RES_FLAG_CLEAR_NEW \in m.ent[e].flags
    ELSE res_IsNewnessClearRequired(m.res, m.ent[e].resourcePtr)

\* ------------------------------------------------------------- tree walks
\* le_dls_Peek / le_dls_PeekNext on a child list: NULL at the end
le_dls_Peek(list) == IF list = <<>> THEN NULL ELSE list[1]
le_dls_PeekNext(list, e) ==
    LET k == CHOOSE i \in 1 .. Len(list) : list[i] = e
    IN IF k = Len(list) THEN NULL ELSE list[k + 1]

resTree_GetFirstChildEx(ent, entryRef, withZombies) ==
    LET childPtr == le_dls_Peek(ent[entryRef].childList)
    IN IF childPtr # NULL /\ (withZombies \/ ~resTree_IsDeleted(ent, childPtr))
       THEN childPtr
       ELSE NULL

resTree_GetFirstChild(ent, entryRef) == resTree_GetFirstChildEx(ent, entryRef, FALSE)

resTree_GetNextSiblingEx(ent, entryRef, withZombies) ==
    IF ent[entryRef].parentPtr = NULL THEN NULL
    ELSE LET childPtr == le_dls_PeekNext(ent[ent[entryRef].parentPtr].childList,
                                         entryRef)
         IN IF childPtr # NULL /\ (withZombies \/ ~resTree_IsDeleted(ent, childPtr))
            THEN childPtr
            ELSE NULL

resTree_GetNextSibling(ent, entryRef) == resTree_GetNextSiblingEx(ent, entryRef, FALSE)

\* ForEachResourceUnder: the calls of func, in order, as the entries whose
\* resource and type are passed; linkPtr is the child the loop is at
RECURSIVE ForEachResourceFrom(_, _, _)
ForEachResourceFrom(ent, entryPtr, linkPtr) ==
    IF linkPtr = NULL THEN <<>>
    ELSE (IF ent[linkPtr].type # ADMIN_ENTRY_TYPE_NAMESPACE
             /\ ent[linkPtr].resourcePtr # NULL
          THEN <<linkPtr>> ELSE <<>>)
         \o ForEachResourceFrom(ent, linkPtr, le_dls_Peek(ent[linkPtr].childList))
         \o ForEachResourceFrom(ent, entryPtr,
                                le_dls_PeekNext(ent[entryPtr].childList, linkPtr))

ForEachResourceUnder(ent, entryPtr) ==
    ForEachResourceFrom(ent, entryPtr, le_dls_Peek(ent[entryPtr].childList))

resTree_ForEachResource(ent) == ForEachResourceUnder(ent, RootPtr)

\* --------------------------------------------------------------------- push
\* what a facade function returns: nothing (void), what the engine returned,
\* or a value of its own
VOID == "void"
ENGINE_VALUE == "engine value"
NAN == "NAN"
EMPTY_STRING == ""
FALSE_VALUE == "false"

\* a call into the resource engine (res_*), recorded in m.calls with what the
\* engine returned (rv); what the engine does with it is the engine's
EngineCall(m, fn, resPtr, type, rv) ==
    [m EXCEPT !.calls = Append(@, [fn |-> fn, arg |-> resPtr, type |-> type,
                                   rv |-> rv])]

\* le_mem_Release(dataSample), recorded in m.calls
ReleaseSample(m, dataSample) ==
    [m EXCEPT !.calls = Append(@, [fn |-> "le_mem_Release", arg |-> dataSample,
                                   type |-> "dataSample", rv |-> VOID])]

\* res_Push returns what the engine decides (rc)
res_Push(m, resPtr, dataType, dataSample, rc) ==
    [m |-> EngineCall(m, "res_Push", resPtr, dataType, rc), rv |-> rc]

\* resTree_Push releasing the sample on every branch
PushReleasingAlways(m, entryRef, dataType, dataSample, rc) ==
    IF m.ent[entryRef].type = ADMIN_ENTRY_TYPE_NAMESPACE
    THEN [m |-> ReleaseSample(m, dataSample), rv |-> LE_BAD_PARAMETER]
    ELSE res_Push(ReleaseSample(m, dataSample), m.ent[entryRef].resourcePtr,
                  dataType, dataSample, rc)

resTree_Push(m, entryRef, dataType, dataSample, rc) ==
    IF m.ent[entryRef].type \in {ADMIN_ENTRY_TYPE_INPUT, ADMIN_ENTRY_TYPE_OUTPUT,
                                 ADMIN_ENTRY_TYPE_OBSERVATION,
                                 ADMIN_ENTRY_TYPE_PLACEHOLDER}
    THEN res_Push(m, m.ent[entryRef].resourcePtr, dataType, dataSample, rc)
    ELSE IF m.ent[entryRef].type = ADMIN_ENTRY_TYPE_NAMESPACE
    THEN [m |-> ReleaseSample(m, dataSample), rv |-> LE_BAD_PARAMETER]
    ELSE [m |-> Fatal(m), rv |-> LE_FAULT]

\* ------------------------------------------------------ observation facade
\* obsEntry->u.resourcePtr is handed to the engine whatever the entry is (for
\* a namespace, the bytes of u.flags read as a pointer)
ForwardUnchecked(m, obsEntry, fn, rv) ==
    [m |-> EngineCall(m, fn, m.ent[obsEntry].resourcePtr, "", rv), rv |-> rv]

\* LE_ASSERT(obsEntry->type == ADMIN_ENTRY_TYPE_OBSERVATION);
\* LE_ASSERT(obsEntry->u.resourcePtr != NULL); then the engine
ForwardAsserted(m, obsEntry, fn, rv) ==
    IF m.ent[obsEntry].type # ADMIN_ENTRY_TYPE_OBSERVATION
       \/ m.ent[obsEntry].resourcePtr = NULL
    THEN [m |-> Fatal(m), rv |-> rv]
    ELSE [m |-> EngineCall(m, fn, m.ent[obsEntry].resourcePtr, "", rv), rv |-> rv]

\* the type is tested first: not an observation, the function returns its
\* own value (sentinel); else LE_ASSERT(u.resourcePtr != NULL) and the engine
ForwardChecked(m, obsEntry, fn, sentinel, rv) ==
    IF m.ent[obsEntry].type # ADMIN_ENTRY_TYPE_OBSERVATION
    THEN [m |-> m, rv |-> sentinel]
    ELSE IF m.ent[obsEntry].resourcePtr = NULL
    THEN [m |-> Fatal(m), rv |-> rv]
    ELSE [m |-> EngineCall(m, fn, m.ent[obsEntry].resourcePtr, "", rv), rv |-> rv]

resTree_SetMinPeriod(m, obsEntry) ==
    ForwardUnchecked(m, obsEntry, "res_SetMinPeriod", VOID)

resTree_GetMinPeriod(m, obsEntry) ==
    ForwardUnchecked(m, obsEntry, "res_GetMinPeriod", ENGINE_VALUE)

resTree_SetHighLimit(m, obsEntry) ==
    ForwardUnchecked(m, obsEntry, "res_SetHighLimit", VOID)

resTree_GetHighLimit(m, obsEntry) ==
    ForwardUnchecked(m, obsEntry, "res_GetHighLimit", ENGINE_VALUE)

resTree_SetLowLimit(m, obsEntry) ==
    ForwardUnchecked(m, obsEntry, "res_SetLowLimit", VOID)

resTree_GetLowLimit(m, obsEntry) ==
    ForwardUnchecked(m, obsEntry, "res_GetLowLimit", ENGINE_VALUE)

resTree_SetChangeBy(m, obsEntry) ==
    ForwardUnchecked(m, obsEntry, "res_SetChangeBy", VOID)

resTree_GetChangeBy(m, obsEntry) ==
    ForwardUnchecked(m, obsEntry, "res_GetChangeBy", ENGINE_VALUE)

resTree_SetTransform(m, obsEntry) ==
    ForwardUnchecked(m, obsEntry, "res_SetTransform", VOID)

resTree_GetTransform(m, obsEntry) ==
    ForwardUnchecked(m, obsEntry, "res_GetTransform", ENGINE_VALUE)

resTree_SetBufferMaxCount(m, obsEntry) ==
    ForwardUnchecked(m, obsEntry, "res_SetBufferMaxCount", VOID)

resTree_GetBufferMaxCount(m, obsEntry) ==
    ForwardUnchecked(m, obsEntry, "res_GetBufferMaxCount", ENGINE_VALUE)

resTree_SetBufferBackupPeriod(m, obsEntry) ==
    ForwardUnchecked(m, obsEntry, "res_SetBufferBackupPeriod", VOID)

resTree_GetBufferBackupPeriod(m, obsEntry) ==
    ForwardUnchecked(m, obsEntry, "res_GetBufferBackupPeriod", ENGINE_VALUE)

resTree_ReadBufferJson(m, obsEntry) ==
    ForwardAsserted(m, obsEntry, "res_ReadBufferJson", VOID)

resTree_FindBufferedSampleAfter(m, obsEntry) ==
    ForwardAsserted(m, obsEntry, "res_FindBufferedSampleAfter", ENGINE_VALUE)

resTree_SetJsonExtraction(m, obsEntry) ==
    ForwardChecked(m, obsEntry, "res_SetJsonExtraction", VOID, VOID)

resTree_GetJsonExtraction(m, obsEntry) ==
    ForwardChecked(m, obsEntry, "res_GetJsonExtraction", EMPTY_STRING, ENGINE_VALUE)

resTree_QueryMin(m, obsEntry) ==
    ForwardChecked(m, obsEntry, "res_QueryMin", NAN, ENGINE_VALUE)

resTree_QueryMax(m, obsEntry) ==
    ForwardChecked(m, obsEntry, "res_QueryMax", NAN, ENGINE_VALUE)

resTree_QueryMean(m, obsEntry) ==
    ForwardChecked(m, obsEntry, "res_QueryMean", NAN, ENGINE_VALUE)

resTree_QueryStdDev(m, obsEntry) ==
    ForwardChecked(m, obsEntry, "res_QueryStdDev", NAN, ENGINE_VALUE)

resTree_MarkObservationAsConfig(m, obsEntry) ==
    ForwardChecked(m, obsEntry, "res_MarkAsConfig", VOID, VOID)

resTree_IsObservationConfig(m, obsEntry) ==
    ForwardChecked(m, obsEntry, "res_IsConfig", FALSE_VALUE, ENGINE_VALUE)

resTree_SetDestination(m, obsEntry) ==
    ForwardChecked(m, obsEntry, "res_SetDestination", VOID, VOID)

\* the observation-only functions of the facade, by name
ObservationOnly ==
    {"resTree_SetMinPeriod",
     "resTree_GetMinPeriod",
     "resTree_SetHighLimit",
     "resTree_GetHighLimit",
     "resTree_SetLowLimit",
     "resTree_GetLowLimit",
     "resTree_SetChangeBy",
     "resTree_GetChangeBy",
     "resTree_SetTransform",
     "resTree_GetTransform",
     "resTree_SetBufferMaxCount",
     "resTree_GetBufferMaxCount",
     "resTree_SetBufferBackupPeriod",
     "resTree_GetBufferBackupPeriod",
     "resTree_ReadBufferJson",
     "resTree_FindBufferedSampleAfter",
     "resTree_SetJsonExtraction",
     "resTree_GetJsonExtraction",
     "resTree_QueryMin",
     "resTree_QueryMax",
     "resTree_QueryMean",
     "resTree_QueryStdDev",
     "resTree_MarkObservationAsConfig",
     "resTree_IsObservationConfig",
     "resTree_SetDestination"}

FacadeCall(fn, m, obsEntry) ==
    CASE fn = "resTree_SetMinPeriod" -> resTree_SetMinPeriod(m, obsEntry)
      [] fn = "resTree_GetMinPeriod" -> resTree_GetMinPeriod(m, obsEntry)
      [] fn = "resTree_SetHighLimit" -> resTree_SetHighLimit(m, obsEntry)
      [] fn = "resTree_GetHighLimit" -> resTree_GetHighLimit(m, obsEntry)
      [] fn = "resTree_SetLowLimit" -> resTree_SetLowLimit(m, obsEntry)
      [] fn = "resTree_GetLowLimit" -> resTree_GetLowLimit(m, obsEntry)
      [] fn = "resTree_SetChangeBy" -> resTree_SetChangeBy(m, obsEntry)
      [] fn = "resTree_GetChangeBy" -> resTree_GetChangeBy(m, obsEntry)
      [] fn = "resTree_SetTransform" -> resTree_SetTransform(m, obsEntry)
      [] fn = "resTree_GetTransform" -> resTree_GetTransform(m, obsEntry)
      [] fn = "resTree_SetBufferMaxCount" -> resTree_SetBufferMaxCount(m, obsEntry)
      [] fn = "resTree_GetBufferMaxCount" -> resTree_GetBufferMaxCount(m, obsEntry)
      [] fn = "resTree_SetBufferBackupPeriod" -> resTree_SetBufferBackupPeriod(m, obsEntry)
      [] fn = "resTree_GetBufferBackupPeriod" -> resTree_GetBufferBackupPeriod(m, obsEntry)
      [] fn = "resTree_ReadBufferJson" -> resTree_ReadBufferJson(m, obsEntry)
      [] fn = "resTree_FindBufferedSampleAfter" -> resTree_FindBufferedSampleAfter(m, obsEntry)
      [] fn = "resTree_SetJsonExtraction" -> resTree_SetJsonExtraction(m, obsEntry)
      [] fn = "resTree_GetJsonExtraction" -> resTree_GetJsonExtraction(m, obsEntry)
      [] fn = "resTree_QueryMin" -> resTree_QueryMin(m, obsEntry)
      [] fn = "resTree_QueryMax" -> resTree_QueryMax(m, obsEntry)
      [] fn = "resTree_QueryMean" -> resTree_QueryMean(m, obsEntry)
      [] fn = "resTree_QueryStdDev" -> resTree_QueryStdDev(m, obsEntry)
      [] fn = "resTree_MarkObservationAsConfig" -> resTree_MarkObservationAsConfig(m, obsEntry)
      [] fn = "resTree_IsObservationConfig" -> resTree_IsObservationConfig(m, obsEntry)
      [] fn = "resTree_SetDestination" -> resTree_SetDestination(m, obsEntry)

\* ------------------------------------------------- the resource functions
\* The functions of the facade that take any resource.  NO_SAMPLE and NO_ENTRY
\* are the NULL a getter returns without asking the engine.
NO_SAMPLE == "no sample"
NO_ENTRY == "no entry"

\* if (!resTree_IsResource(resRef)) return sentinel; else the engine
ForwardIfResource(m, resRef, fn, sentinel, rv) ==
    IF ~resTree_IsResource(m.ent, resRef) THEN [m |-> m, rv |-> sentinel]
    ELSE [m |-> EngineCall(m, fn, m.ent[resRef].resourcePtr, "", rv), rv |-> rv]

resTree_AddPushHandler(m, resRef) ==
    ForwardUnchecked(m, resRef, "res_AddPushHandler", ENGINE_VALUE)

resTree_GetCurrentValue(m, resRef) ==
    ForwardIfResource(m, resRef, "res_GetCurrentValue", NO_SAMPLE, ENGINE_VALUE)

\* resTree_SetSource: srcEntry may be NULL (clear the source); the engine is
\* given destEntry->u.resourcePtr and srcEntry->u.resourcePtr
resTree_SetSource(m, destEntry, srcEntry) ==
    IF m.ent[destEntry].type = ADMIN_ENTRY_TYPE_NAMESPACE
    THEN [m |-> Fatal(m), rv |-> LE_OK]
    ELSE [m |-> EngineCall(
                    EngineCall(m, "res_SetSource", m.ent[destEntry].resourcePtr,
                               "destination", ENGINE_VALUE),
                    "res_SetSource",
                    IF srcEntry # NULL THEN m.ent[srcEntry].resourcePtr ELSE NULL,
                    "source", ENGINE_VALUE),
          rv |-> ENGINE_VALUE]

resTree_GetSource(m, destEntry) ==
    ForwardIfResource(m, destEntry, "res_GetSource", NO_ENTRY, ENGINE_VALUE)

resTree_MarkOptional(m, resEntry) ==
    ForwardUnchecked(m, resEntry, "res_MarkOptional", VOID)

resTree_IsMandatory(m, resEntry) ==
    IF m.ent[resEntry].type # ADMIN_ENTRY_TYPE_OUTPUT
    THEN [m |-> m, rv |-> FALSE_VALUE]
    ELSE [m |-> EngineCall(m, "res_IsMandatory", m.ent[resEntry].resourcePtr, "",
                           ENGINE_VALUE),
          rv |-> ENGINE_VALUE]

\* resTree_SetDefault and resTree_RemoveDefault as the caller sees them: the
\* engine is called with resEntry->u.resourcePtr; what it keeps for a
\* resource is resTree_SetDefault / resTree_RemoveDefault above
SetDefaultCall(m, resEntry) ==
    [m |-> EngineCall(IF resTree_IsResource(m.ent, resEntry)
                      THEN resTree_SetDefault(m, resEntry) ELSE m,
                      "res_SetDefault", m.ent[resEntry].resourcePtr, "", LE_OK),
     rv |-> LE_OK]

RemoveDefaultCall(m, resEntry) ==
    [m |-> EngineCall(IF resTree_IsResource(m.ent, resEntry)
                      THEN resTree_RemoveDefault(m, resEntry) ELSE m,
                      "res_RemoveDefault", m.ent[resEntry].resourcePtr, "", VOID),
     rv |-> VOID]

resTree_HasDefault(m, resEntry) ==
    ForwardUnchecked(m, resEntry, "res_HasDefault", ENGINE_VALUE)

resTree_GetDefaultDataType(m, resEntry) ==
    ForwardUnchecked(m, resEntry, "res_GetDefaultDataType", ENGINE_VALUE)

resTree_GetDefaultValue(m, resEntry) ==
    ForwardUnchecked(m, resEntry, "res_GetDefaultValue", ENGINE_VALUE)

resTree_SetOverride(m, resEntry) ==
    ForwardUnchecked(m, resEntry, "res_SetOverride", ENGINE_VALUE)

resTree_HasOverride(m, resEntry) ==
    ForwardUnchecked(m, resEntry, "res_HasOverride", ENGINE_VALUE)

resTree_GetOverrideDataType(m, resEntry) ==
    ForwardUnchecked(m, resEntry, "res_GetOverrideDataType", ENGINE_VALUE)

resTree_GetOverrideValue(m, resEntry) ==
    ForwardUnchecked(m, resEntry, "res_GetOverrideValue", ENGINE_VALUE)

resTree_RemoveOverride(m, resEntry) ==
    ForwardUnchecked(m, resEntry, "res_RemoveOverride", VOID)

\* the resource functions of the facade that take one entry, by name
ResourceFunctions ==
    {"resTree_AddPushHandler", "resTree_GetCurrentValue", "resTree_GetSource",
     "resTree_MarkOptional", "resTree_IsMandatory", "resTree_SetDefault",
     "resTree_RemoveDefault", "resTree_HasDefault", "resTree_GetDefaultDataType",
     "resTree_GetDefaultValue", "resTree_SetOverride", "resTree_HasOverride",
     "resTree_GetOverrideDataType", "resTree_GetOverrideValue",
     "resTree_RemoveOverride"}

ResourceCall(fn, m, resEntry) ==
    CASE fn = "resTree_AddPushHandler" -> resTree_AddPushHandler(m, resEntry)
      [] fn = "resTree_GetCurrentValue" -> resTree_GetCurrentValue(m, resEntry)
      [] fn = "resTree_GetSource" -> resTree_GetSource(m, resEntry)
      [] fn = "resTree_MarkOptional" -> resTree_MarkOptional(m, resEntry)
      [] fn = "resTree_IsMandatory" -> resTree_IsMandatory(m, resEntry)
      [] fn = "resTree_SetDefault" -> SetDefaultCall(m, resEntry)
      [] fn = "resTree_RemoveDefault" -> RemoveDefaultCall(m, resEntry)
      [] fn = "resTree_HasDefault" -> resTree_HasDefault(m, resEntry)
      [] fn = "resTree_GetDefaultDataType" -> resTree_GetDefaultDataType(m, resEntry)
      [] fn = "resTree_GetDefaultValue" -> resTree_GetDefaultValue(m, resEntry)
      [] fn = "resTree_SetOverride" -> resTree_SetOverride(m, resEntry)
      [] fn = "resTree_HasOverride" -> resTree_HasOverride(m, resEntry)
      [] fn = "resTree_GetOverrideDataType" -> resTree_GetOverrideDataType(m, resEntry)
      [] fn = "resTree_GetOverrideValue" -> resTree_GetOverrideValue(m, resEntry)
      [] fn = "resTree_RemoveOverride" -> resTree_RemoveOverride(m, resEntry)

\* ------------------------------------------------------------ data samples
\* dataSample.c.  A block of a sample pool holds a DataSample_t: its
\* timestamp and the union value (boolean, numeric, or stringPtr: a block of
\* StringPool).  The data type is not stored in the sample.
SampleIds == 1 .. MaxSamples
NonStringDataSamplePool == "NonStringDataSamplePool"
StringBasedDataSamplePool == "StringBasedDataSamplePool"
IO_NOW == 0
Timestamps == IO_NOW .. MaxTimestamp

IO_DATA_TYPE_TRIGGER == "TRIGGER"
IO_DATA_TYPE_NUMERIC == "NUMERIC"
IO_DATA_TYPE_BOOLEAN == "BOOLEAN"
IO_DATA_TYPE_STRING == "STRING"
IO_DATA_TYPE_JSON == "JSON"

QUOTE == "\""
NUL == "NUL"
NoValue == "none"

FreeSample ==
    [used |-> FALSE, refCount |-> 0, pool |-> NonStringDataSamplePool,
     timestamp |-> IO_NOW, value |-> NoValue, stringPtr |-> NULL]
FreeString == [used |-> FALSE, refCount |-> 0, bytes |-> <<>>]
NoSamples ==
    [obj |-> [i \in SampleIds |-> FreeSample], str |-> [i \in SampleIds |-> FreeString]]

\* a free block of a pool, or NULL
FreeBlock(pool) ==
    IF \E i \in SampleIds : ~pool[i].used
    THEN CHOOSE i \in SampleIds : ~pool[i].used /\ \A j \in 1 .. i - 1 : pool[j].used
    ELSE NULL

\* hub_MemAlloc(pool) for a sample: a free block with one reference, or NULL
\* when the pool has none or refuses (ok = FALSE)
hub_MemAllocSample(m, ok) == IF ok THEN FreeBlock(m.smp.obj) ELSE NULL

\* le_mem_StrDup(StringPool, value): a block holding a copy of value, or NULL
le_mem_StrDup(m, value, ok) ==
    LET p == IF ok THEN FreeBlock(m.smp.str) ELSE NULL
    IN IF p = NULL THEN [m |-> m, rv |-> NULL]
       ELSE [m |-> [m EXCEPT !.smp.str[p] =
                                [used |-> TRUE, refCount |-> 1, bytes |-> value]],
             rv |-> p]

\* le_mem_Release on a block of StringPool, recorded in m.calls; releasing a
\* block that is not allocated aborts
le_mem_ReleaseString(m, p) ==
    LET m1 == [m EXCEPT !.calls = Append(@, [fn |-> "le_mem_Release", arg |-> p,
                                             type |-> "string", rv |-> VOID])]
    IN IF ~m.smp.str[p].used THEN Fatal(m1)
       ELSE IF m.smp.str[p].refCount > 1
       THEN [m1 EXCEPT !.smp.str[p].refCount = @ - 1]
       ELSE [m1 EXCEPT !.smp.str[p] = FreeString]

dataSample_GetString(m, sampleRef) == m.smp.obj[sampleRef].stringPtr
dataSample_GetJson(m, sampleRef) == m.smp.obj[sampleRef].stringPtr
dataSample_GetTimestamp(m, sampleRef) == m.smp.obj[sampleRef].timestamp

\* StringSampleDestructor releasing the string whether or not there is one
DestructorReleasingAlways(m, samplePtr) ==
    le_mem_ReleaseString(m, IF dataSample_GetString(m, samplePtr) = NULL
                            THEN samplePtr
                            ELSE dataSample_GetString(m, samplePtr))

StringSampleDestructor(m, samplePtr) ==
    IF dataSample_GetString(m, samplePtr) # NULL
    THEN le_mem_ReleaseString(m, dataSample_GetString(m, samplePtr))
    ELSE m

\* le_mem_Release on a sample, recorded in m.calls: drop one reference; on the
\* last one run the pool's destructor (StringBasedDataSamplePool has one) and free the block
le_mem_ReleaseSample(m, s) ==
    LET m0 == ReleaseSample(m, s)
    IN IF ~m.smp.obj[s].used THEN Fatal(m0)
       ELSE IF m.smp.obj[s].refCount > 1
       THEN [m0 EXCEPT !.smp.obj[s].refCount = @ - 1]
       ELSE LET m1 == IF m.smp.obj[s].pool = StringBasedDataSamplePool
                      THEN StringSampleDestructor(m0, s)
                      ELSE m0
            IN IF m1.fatal THEN m1 ELSE [m1 EXCEPT !.smp.obj[s] = FreeSample]

le_mem_AddRefSample(m, s) == [m EXCEPT !.smp.obj[s].refCount = @ + 1]

\* CreateSample: now is what le_clk_GetAbsoluteTime reads
CreateSample(m, pool, timestamp, now, ok) ==
    LET samplePtr == hub_MemAllocSample(m, ok)
    IN IF samplePtr = NULL THEN [m |-> m, rv |-> NULL]
       ELSE [m |-> [m EXCEPT !.smp.obj[samplePtr] =
                        [used |-> TRUE, refCount |-> 1, pool |-> pool,
                         timestamp |-> IF timestamp = IO_NOW THEN now ELSE timestamp,
                         value |-> NoValue, stringPtr |-> NULL]],
             rv |-> samplePtr]

dataSample_CreateTrigger(m, timestamp, now, ok) ==
    CreateSample(m, NonStringDataSamplePool, timestamp, now, ok)

SetValue(r, value) ==
    IF r.rv # NULL THEN [r EXCEPT !.m.smp.obj[r.rv].value = value] ELSE r

dataSample_CreateBoolean(m, timestamp, value, now, ok) ==
    SetValue(CreateSample(m, NonStringDataSamplePool, timestamp, now, ok), value)

dataSample_CreateNumeric(m, timestamp, value, now, ok) ==
    SetValue(CreateSample(m, NonStringDataSamplePool, timestamp, now, ok), value)

\* dataSample_CreateString after CreateSample gave r and le_mem_StrDup gave d
CreateStringWith(r, d) ==
    IF d.rv = NULL
    THEN [m |-> le_mem_ReleaseSample(
                    [d.m EXCEPT !.smp.obj[r.rv].stringPtr = NULL], r.rv),
          rv |-> NULL]
    ELSE [m |-> [d.m EXCEPT !.smp.obj[r.rv].stringPtr = d.rv], rv |-> r.rv]

CreateStringOn(r, value, strOk) ==
    IF r.rv = NULL THEN r ELSE CreateStringWith(r, le_mem_StrDup(r.m, value, strOk))

dataSample_CreateString(m, timestamp, value, now, ok, strOk) ==
    CreateStringOn(CreateSample(m, StringBasedDataSamplePool, timestamp, now, ok),
                   value, strOk)

dataSample_CreateJson(m, timestamp, value, now, ok, strOk) ==
    dataSample_CreateString(m, timestamp, value, now, ok, strOk)

dataSample_SetTimestamp(m, sample, timestamp) ==
    [m EXCEPT !.smp.obj[sample].timestamp = timestamp]

\* snprintf(buf, size, text): what it writes (the text cut to size - 1 and a
\* terminator, nothing when size is 0) and what it returns (the full length)
snprintf(size, text) ==
    [n |-> Len(text),
     buf |-> IF size = 0 THEN <<>>
             ELSE SubSeq(text, 1, IF Len(text) < size - 1 THEN Len(text) ELSE size - 1)
                  \o <<NUL>>]

\* le_utf8_Copy into a buffer: result, bytes copied, and what it wrote
Utf8CopyInto(src, destSize) ==
    LET c == le_utf8_Copy(src, destSize)
    IN [rc |-> IF c.ok THEN LE_OK ELSE LE_OVERFLOW, len |-> Len(c.out),
        buf |-> c.out \o <<NUL>>]

\* the text of a value: "true" / "false", and "%lf" of a number
TextTrue == <<"t", "r", "u", "e">>
TextFalse == <<"f", "a", "l", "s", "e">>
TextNull == <<"n", "u", "l", "l">>
TextOne == <<"1", ".", "0", "0", "0", "0", "0", "0">>
BoolTrue == "true"
BoolFalse == "false"
NumOne == "1"

\* IO_DATA_TYPE_STRING branch once the opening quote is written: c is what
\* le_utf8_Copy did with the buffer behind the quote (valueBuffSize - 1 bytes)
QuotedCopy(c, valueBuffSize) ==
    IF c.rc # LE_OK \/ c.len >= valueBuffSize - 1
    THEN [rc |-> LE_OVERFLOW, buf |-> <<QUOTE>> \o c.buf]
    ELSE [rc |-> LE_OK,
          buf |-> <<QUOTE>> \o SubSeq(c.buf, 1, c.len) \o <<QUOTE, NUL>>]

\* dataSample_ConvertToJson accepting a string that fills the buffer up to
\* the closing quote
ConvertWithoutRoomForQuote(value, stringValue, dataType, valueBuffSize) ==
    IF valueBuffSize < 3 THEN [rc |-> LE_OVERFLOW, buf |-> <<>>]
    ELSE LET c == Utf8CopyInto(stringValue, valueBuffSize - 1)
         IN IF c.rc # LE_OK THEN [rc |-> LE_OVERFLOW, buf |-> <<QUOTE>> \o c.buf]
            ELSE [rc |-> LE_OK,
                  buf |-> <<QUOTE>> \o SubSeq(c.buf, 1, c.len) \o <<QUOTE, NUL>>]

\* dataSample_ConvertToJson: the result and the bytes written to
\* valueBuffPtr, from its first byte on; value and stringValue are the
\* sample's union read as the data type says
dataSample_ConvertToJson(value, stringValue, dataType, valueBuffSize) ==
    IF dataType = IO_DATA_TYPE_TRIGGER
    THEN LET c == Utf8CopyInto(TextNull, valueBuffSize)
         IN [rc |-> c.rc, buf |-> c.buf]
    ELSE IF dataType = IO_DATA_TYPE_BOOLEAN
    THEN LET p == snprintf(valueBuffSize, IF value = BoolTrue THEN TextTrue
                                          ELSE TextFalse)
         IN [rc |-> IF p.n >= valueBuffSize THEN LE_OVERFLOW ELSE LE_OK,
             buf |-> p.buf]
    ELSE IF dataType = IO_DATA_TYPE_NUMERIC
    THEN LET p == snprintf(valueBuffSize, TextOne)
         IN [rc |-> IF valueBuffSize <= p.n THEN LE_OVERFLOW ELSE LE_OK,
             buf |-> p.buf]
    ELSE IF dataType = IO_DATA_TYPE_STRING
    THEN IF valueBuffSize < 3 THEN [rc |-> LE_OVERFLOW, buf |-> <<>>]
         ELSE QuotedCopy(Utf8CopyInto(stringValue, valueBuffSize - 1),
                         valueBuffSize - 1)
    ELSE LET c == Utf8CopyInto(stringValue, valueBuffSize)
         IN [rc |-> c.rc, buf |-> c.buf]

\* json_Extract: what it reports for the sample's JSON and the extraction
\* specifier is given by x: its result, the type of the node and its text
JSON_TYPE_NULL == "null"
JSON_TYPE_BOOLEAN == "boolean"
JSON_TYPE_NUMBER == "number"
JSON_TYPE_STRING == "string"
JSON_TYPE_OBJECT == "object"
JSON_TYPE_ARRAY == "array"

json_ConvertToBoolean(resultBuff) == IF resultBuff = TextTrue THEN BoolTrue ELSE BoolFalse
json_ConvertToNumber(resultBuff) == NumOne

\* dataSample_ExtractJson: the new sample (or NULL) and the data type written
\* through dataTypePtr (VOID: not written)
dataSample_ExtractJson(m, sampleRef, x, now, ok, strOk) ==
    LET t == dataSample_GetTimestamp(m, sampleRef)
    IN IF x.result # LE_OK THEN [m |-> m, rv |-> NULL, type |-> VOID]
       ELSE IF x.jsonType = JSON_TYPE_NULL
       THEN dataSample_CreateTrigger(m, t, now, ok)
                @@ [type |-> IO_DATA_TYPE_TRIGGER]
       ELSE IF x.jsonType = JSON_TYPE_BOOLEAN
       THEN dataSample_CreateBoolean(m, t, json_ConvertToBoolean(x.text), now, ok)
                @@ [type |-> IO_DATA_TYPE_BOOLEAN]
       ELSE IF x.jsonType = JSON_TYPE_NUMBER
       THEN dataSample_CreateNumeric(m, t, json_ConvertToNumber(x.text), now, ok)
                @@ [type |-> IO_DATA_TYPE_NUMERIC]
       ELSE IF x.jsonType = JSON_TYPE_STRING
       THEN dataSample_CreateString(m, t, x.text, now, ok, strOk)
                @@ [type |-> IO_DATA_TYPE_STRING]
       ELSE IF x.jsonType \in {JSON_TYPE_OBJECT, JSON_TYPE_ARRAY}
       THEN dataSample_CreateJson(m, t, x.text, now, ok, strOk)
                @@ [type |-> IO_DATA_TYPE_JSON]
       ELSE [m |-> Fatal(m), rv |-> NULL, type |-> VOID]

\* ------------------------------------------------------- snapshot protocol
\* Commit: every node the scan saw as new gets CLEAR_NEW (nodes e, e - 1, ...)
RECURSIVE snapshot_CommitFrom(_, _)
snapshot_CommitFrom(m, e) ==
    IF e = 0 THEN m
    ELSE snapshot_CommitFrom(
             IF m.ent[e].used /\ resTree_IsNew(m, e)
             THEN resTree_SetClearNewnessFlag(m, e) ELSE m,
             e - 1)

snapshot_Commit(m) == snapshot_CommitFrom(m, MaxEntries)

\* Flush, first pass: clear_newness on every node that has CLEAR_NEW set
RECURSIVE snapshot_FlushNewness(_, _)
snapshot_FlushNewness(m, e) ==
    IF e = 0 THEN m
    ELSE snapshot_FlushNewness(
             IF m.ent[e].used /\ resTree_IsNewnessClearRequired(m, e)
             THEN resTree_ClearNewness(m, e) ELSE m,
             e - 1)

\* Flush, second pass: every tombstone whose NEW is clear is removed, that
\* is, the reference snapshot_RecordNodeDeletion took on it is released
\* (children before their parents)
RECURSIVE snapshot_FlushDeleted(_, _)
snapshot_FlushDeleted(m, e) ==
    IF e = 0 \/ m.fatal THEN m
    ELSE snapshot_FlushDeleted(
             IF m.ent[e].used /\ resTree_IsDeleted(m.ent, e) /\ ~resTree_IsNew(m, e)
             THEN le_mem_Release(m, e) ELSE m,
             e - 1)

snapshot_Flush(m) ==
    snapshot_FlushDeleted(snapshot_FlushNewness(m, MaxEntries), MaxEntries)

\* ===================================================================== state
VARIABLES
    ent,    \* EntryPool: block -> Entry_t
    res,    \* the resource engine's pool: block -> resource
    fatal,  \* the process was aborted by LE_ASSERT / LE_FATAL
    samples,\* the data sample pools and StringPool: block -> DataSample_t,
            \* block -> string
    last    \* the last call: operation, arguments, result, the notifications
            \* and type assignments it made, the calls it made to the engine,
            \* to le_mem_Release of a sample and to a callback given to it,
            \* the blocks it allocated and freed,
            \* whether the engine refused a resource, and whether it repeats
            \* the call before it (same operation and arguments, which
            \* returned LE_OK)

vars == <<ent, res, fatal, samples, last>>

NoCall ==
    [op |-> "resTree_Init", base |-> NULL, path |-> <<>>, entry |-> NULL,
     ret |-> LE_OK, out |-> NULL, notes |-> <<>>, views |-> <<>>, trans |-> <<>>,
     allocs |-> {}, frees |-> {}, resDenied |-> FALSE, again |-> FALSE,
     calls |-> <<>>]

EmptyMachine ==
    [ent |-> [i \in Ids |-> FreeEntry], res |-> [i \in Ids |-> FreeRes],
     fatal |-> FALSE, budget |-> 1, resOk |-> TRUE, resDenied |-> FALSE,
     notes |-> <<>>, views |-> <<>>, trans |-> <<>>, allocs |-> {}, frees |-> {},
     calls |-> <<>>, smp |-> NoSamples]

\* resTree_Init: RootPtr = AddChild(NULL, "", NULL)
resTree_Init == AddChild(EmptyMachine, NULL, <<>>, NULL)

Init ==
    /\ ent = resTree_Init.m.ent
    /\ res = resTree_Init.m.res
    /\ fatal = FALSE
    /\ samples = NoSamples
    /\ last = NoCall

\* the machine at the start of a call: budget entry allocations will succeed,
\* and the engine can (resOk) or cannot allocate a resource
Machine(budget, resOk) ==
    [ent |-> ent, res |-> res, fatal |-> FALSE, budget |-> budget,
     resOk |-> resOk, resDenied |-> FALSE, notes |-> <<>>, views |-> <<>>,
     trans |-> <<>>, allocs |-> {}, frees |-> {}, calls |-> <<>>, smp |-> samples]

Commit(r, op, base, path, entry) ==
    /\ ent' = r.m.ent
    /\ res' = r.m.res
    /\ fatal' = r.m.fatal
    /\ samples' = r.m.smp
    /\ last' = [op |-> op, base |-> base, path |-> path, entry |-> entry,
                ret |-> IF r.m.fatal THEN "FATAL" ELSE r.ret,
                out |-> IF r.m.fatal THEN NULL ELSE r.out,
                notes |-> r.m.notes, views |-> r.m.views, trans |-> r.m.trans,
                allocs |-> r.m.allocs, frees |-> r.m.frees,
                resDenied |-> r.m.resDenied,
                again |-> /\ base # NULL
                          /\ last.op = op /\ last.base = base /\ last.path = path
                          /\ last.ret = LE_OK,
                calls |-> r.m.calls]

Used(e) == ent[e].used

\* The calls that take a path: relative to the root (resTree_GetRoot), and
\* relative to the observations namespace /obs once a lookup returns it.
ObsBase == resTree_FindEntry(ent, RootPtr, pObs)
CallsOn(rootPaths, obsPaths) ==
    {<<RootPtr, p>> : p \in rootPaths}
        \cup (IF ObsBase # NULL THEN {<<ObsBase, p>> : p \in obsPaths} ELSE {})
\* Allocation failures of a call: [budget, resOk], where budget entry
\* allocations succeed (2 is as many as any call asks for) and resOk tells
\* whether the resource engine can allocate.
NoFailure == [budget |-> MaxBudget, resOk |-> TRUE]
EntryFailures == {[budget |-> n, resOk |-> TRUE] : n \in 0 .. MaxBudget - 1}
ResFailures == {[budget |-> MaxBudget, resOk |-> FALSE]}

\* the entry (if any) an input/output/observation lives at
Occupied(base, path) ==
    LET f == resTree_FindEntry(ent, base, path)
    IN f # NULL /\ ent[f].type \in {ADMIN_ENTRY_TYPE_INPUT, ADMIN_ENTRY_TYPE_OUTPUT,
                                     ADMIN_ENTRY_TYPE_OBSERVATION}

\* ------------------------------------------------------------------ actions
Find(base, path) ==
    /\ ~fatal
    /\ Commit([m |-> Machine(0, FALSE), ret |-> LE_OK,
               out |-> resTree_FindEntry(ent, base, path)],
              "resTree_FindEntry", base, path, NULL)

FindAbs(path) ==
    /\ ~fatal
    /\ Commit([m |-> Machine(0, FALSE), ret |-> LE_OK,
               out |-> resTree_FindEntryAtAbsolutePath(ent, path)],
              "resTree_FindEntryAtAbsolutePath", NULL, path, NULL)

GetEntry(base, path, budget) ==
    /\ ~fatal
    /\ Commit(resTree_GetEntry(Machine(budget, TRUE), base, path),
              "resTree_GetEntry", base, path, NULL)

GetResource(base, path, budget, resOk) ==
    /\ ~fatal
    /\ Commit(resTree_GetResource(Machine(budget, resOk), base, path),
              "resTree_GetResource", base, path, NULL)

CreateInput(base, path, budget, resOk) ==
    /\ ~fatal
    /\ ~Occupied(base, path)
    /\ Commit(resTree_CreateInput(Machine(budget, resOk), base, path),
              "resTree_CreateInput", base, path, NULL)

CreateOutput(base, path, budget, resOk) ==
    /\ ~fatal
    /\ ~Occupied(base, path)
    /\ Commit(resTree_CreateOutput(Machine(budget, resOk), base, path),
              "resTree_CreateOutput", base, path, NULL)

GetObservation(base, path, budget, resOk) ==
    /\ ~fatal
    /\ Commit(resTree_GetObservation(Machine(budget, resOk), base, path),
              "resTree_GetObservation", base, path, NULL)

DeleteIO(e) ==
    /\ ~fatal
    /\ Used(e)
    /\ ent[e].type \in {ADMIN_ENTRY_TYPE_INPUT, ADMIN_ENTRY_TYPE_OUTPUT}
    /\ Commit([m |-> resTree_DeleteIO(Machine(0, FALSE), e), ret |-> LE_OK,
               out |-> NULL],
              "resTree_DeleteIO", NULL, <<>>, e)

DeleteObservation(e) ==
    /\ ~fatal
    /\ Used(e)
    /\ ent[e].type = ADMIN_ENTRY_TYPE_OBSERVATION
    /\ Commit([m |-> resTree_DeleteObservation(Machine(0, FALSE), e),
               ret |-> LE_OK, out |-> NULL],
              "resTree_DeleteObservation", NULL, <<>>, e)

SetDefault(e) ==
    /\ ~fatal
    /\ Used(e)
    /\ resTree_IsResource(ent, e)
    /\ Commit([m |-> resTree_SetDefault(Machine(0, FALSE), e), ret |-> LE_OK,
               out |-> NULL],
              "resTree_SetDefault", NULL, <<>>, e)

RemoveDefault(e) ==
    /\ ~fatal
    /\ Used(e)
    /\ resTree_IsResource(ent, e)
    /\ Commit([m |-> resTree_RemoveDefault(Machine(0, FALSE), e), ret |-> LE_OK,
               out |-> NULL],
              "resTree_RemoveDefault", NULL, <<>>, e)

SetRelevance(e, relevant) ==
    /\ ~fatal
    /\ Used(e)
    /\ ent[e].type = ADMIN_ENTRY_TYPE_NAMESPACE
    /\ Commit([m |-> resTree_SetRelevance(Machine(0, FALSE), e, relevant),
               ret |-> LE_OK, out |-> NULL],
              "resTree_SetRelevance", NULL, <<>>, e)

SetClearNewnessFlag(e) ==
    /\ ~fatal
    /\ Used(e)
    /\ ent[e].type = ADMIN_ENTRY_TYPE_NAMESPACE
    /\ Commit([m |-> resTree_SetClearNewnessFlag(Machine(0, FALSE), e),
               ret |-> LE_OK, out |-> NULL],
              "resTree_SetClearNewnessFlag", NULL, <<>>, e)

ClearNewness(e) ==
    /\ ~fatal
    /\ Used(e)
    /\ ent[e].type = ADMIN_ENTRY_TYPE_NAMESPACE
    /\ Commit([m |-> resTree_ClearNewness(Machine(0, FALSE), e),
               ret |-> LE_OK, out |-> NULL],
              "resTree_ClearNewness", NULL, <<>>, e)

\* the snapshot's commit phase; there is something new to commit
SnapshotCommit ==
    /\ ~fatal
    /\ \E e \in Ids : Used(e) /\ resTree_IsNew(Machine(0, FALSE), e)
    /\ Commit([m |-> snapshot_Commit(Machine(0, FALSE)), ret |-> LE_OK,
               out |-> NULL],
              "snapshot_Commit", NULL, <<>>, NULL)

\* the snapshot's flush phase; there is something to flush
SnapshotFlush ==
    /\ ~fatal
    /\ \E e \in Ids :
           /\ Used(e)
           /\ \/ resTree_IsNewnessClearRequired(Machine(0, FALSE), e)
              \/ resTree_IsDeleted(ent, e)
    /\ Commit([m |-> snapshot_Flush(Machine(0, FALSE)), ret |-> LE_OK,
               out |-> NULL],
              "snapshot_Flush", NULL, <<>>, NULL)

\* resTree_GetPath(buffer, size, base, entry); last.path is what the buffer
\* holds afterwards and last.out the number of bytes reported
GetPathResult(g, base, entry) ==
    Commit([m |-> IF g.rc = "FATAL" THEN Fatal(Machine(0, FALSE))
                  ELSE Machine(0, FALSE),
            ret |-> g.rc, out |-> g.len],
           "resTree_GetPath", base, g.str, entry)

GetPath(base, entry, size) ==
    /\ ~fatal
    /\ Used(base) /\ Used(entry)
    /\ GetPathResult(resTree_GetPath(ent, size, base, entry), base, entry)

GetFirstChild(e) ==
    /\ ~fatal
    /\ Used(e)
    /\ Commit([m |-> Machine(0, FALSE), ret |-> LE_OK,
               out |-> resTree_GetFirstChild(ent, e)],
              "resTree_GetFirstChild", NULL, <<>>, e)

GetNextSibling(e) ==
    /\ ~fatal
    /\ Used(e)
    /\ Commit([m |-> Machine(0, FALSE), ret |-> LE_OK,
               out |-> resTree_GetNextSibling(ent, e)],
              "resTree_GetNextSibling", NULL, <<>>, e)

\* the calls of func are recorded in last.calls, each with the entry whose
\* resource it was given and the type it was given
FuncCalls(visited) ==
    [k \in 1 .. Len(visited) |->
        [fn |-> "func", arg |-> visited[k], type |-> ent[visited[k]].type,
         rv |-> VOID]]

ForEachResource ==
    /\ ~fatal
    /\ Commit([m |-> [Machine(0, FALSE) EXCEPT
                         !.calls = FuncCalls(resTree_ForEachResource(ent))],
               ret |-> LE_OK, out |-> NULL],
              "resTree_ForEachResource", NULL, <<>>, NULL)

\* the sample handed to a push, its data type, and what res_Push may return
SampleRef == 1
PushResults == {LE_OK, LE_FAULT}

PushResult(r, e) ==
    Commit([m |-> r.m, ret |-> r.rv, out |-> NULL], "resTree_Push", NULL, <<>>, e)

Push(e, rc) ==
    /\ ~fatal
    /\ Used(e)
    /\ PushResult(resTree_Push(Machine(0, FALSE), e, IO_DATA_TYPE_NUMERIC,
                               SampleRef, rc), e)

FacadeResult(r, fn, e) ==
    Commit([m |-> r.m, ret |-> r.rv, out |-> NULL], fn, NULL, <<>>, e)

Facade(fn, e) ==
    /\ ~fatal
    /\ Used(e)
    /\ FacadeResult(FacadeCall(fn, Machine(0, FALSE), e), fn, e)

\* a resource function applied to any entry a caller may hold
ResourceFacade(fn, e) ==
    /\ ~fatal
    /\ Used(e)
    /\ ~resTree_IsDeleted(ent, e)
    /\ FacadeResult(ResourceCall(fn, Machine(0, FALSE), e), fn, e)

\* resTree_SetSource(dest, src); src = NULL clears the source
SetSource(dest, src) ==
    /\ ~fatal
    /\ Used(dest) /\ ~resTree_IsDeleted(ent, dest)
    /\ src # NULL => (Used(src) /\ ~resTree_IsDeleted(ent, src))
    /\ Commit([m |-> resTree_SetSource(Machine(0, FALSE), dest, src).m,
               ret |-> resTree_SetSource(Machine(0, FALSE), dest, src).rv,
               out |-> src],
              "resTree_SetSource", NULL, <<>>, dest)

\* ----------------------------------------------------- data sample actions
\* what le_clk_GetAbsoluteTime reads: later than every timestamp given
Clock == MaxTimestamp + 1
\* the strings given to create_string / create_json: "" and "hi"
TextHi == <<"h", "i">>
Payloads == {<<>>, TextHi}
\* the sizes of the buffers given to convert_to_json
ValueBuffSizes == 0 .. HUB_MAX_STRING_BYTES
\* the JSON given to create_json, and the text of an object or array node
TextObject == <<"{", "}">>
\* the ways a call that allocates may be refused: the sample pool (ok) or
\* StringPool (strOk)
Refusals ==
    {[ok |-> TRUE, strOk |-> TRUE], [ok |-> FALSE, strOk |-> TRUE],
     [ok |-> TRUE, strOk |-> FALSE]}
\* what json_Extract may report
Extractions ==
    {[result |-> LE_FAULT, jsonType |-> JSON_TYPE_NULL, text |-> <<>>],
     [result |-> LE_OK, jsonType |-> JSON_TYPE_NULL, text |-> TextNull],
     [result |-> LE_OK, jsonType |-> JSON_TYPE_BOOLEAN, text |-> TextTrue],
     [result |-> LE_OK, jsonType |-> JSON_TYPE_NUMBER, text |-> TextOne],
     [result |-> LE_OK, jsonType |-> JSON_TYPE_STRING, text |-> TextHi],
     [result |-> LE_OK, jsonType |-> JSON_TYPE_OBJECT, text |-> TextObject],
     [result |-> LE_OK, jsonType |-> JSON_TYPE_ARRAY, text |-> TextObject]}

SampleUsed(s) == samples.obj[s].used

\* the data types a holder of sample s may take it for
TypesOf(s) ==
    IF samples.obj[s].pool = StringBasedDataSamplePool
    THEN {IO_DATA_TYPE_STRING, IO_DATA_TYPE_JSON}
    ELSE IF samples.obj[s].value = NoValue THEN {IO_DATA_TYPE_TRIGGER}
    ELSE IF samples.obj[s].value = NumOne THEN {IO_DATA_TYPE_NUMERIC}
    ELSE {IO_DATA_TYPE_BOOLEAN}

StringOf(s) ==
    IF samples.obj[s].stringPtr = NULL THEN <<>>
    ELSE samples.str[samples.obj[s].stringPtr].bytes

Created(r, op, timestamp, value) ==
    Commit([m |-> r.m, ret |-> LE_OK, out |-> r.rv], op, timestamp, value, NULL)

CreateTrigger(timestamp, ok) ==
    /\ ~fatal
    /\ Created(dataSample_CreateTrigger(Machine(0, FALSE), timestamp, Clock, ok),
               "dataSample_CreateTrigger", timestamp, <<>>)

CreateBoolean(timestamp, value, ok) ==
    /\ ~fatal
    /\ Created(dataSample_CreateBoolean(Machine(0, FALSE), timestamp, value, Clock, ok),
               "dataSample_CreateBoolean", timestamp, <<>>)

CreateNumeric(timestamp, ok) ==
    /\ ~fatal
    /\ Created(dataSample_CreateNumeric(Machine(0, FALSE), timestamp, NumOne, Clock, ok),
               "dataSample_CreateNumeric", timestamp, <<>>)

CreateString(timestamp, value, ok, strOk) ==
    /\ ~fatal
    /\ Created(dataSample_CreateString(Machine(0, FALSE), timestamp, value, Clock,
                                       ok, strOk),
               "dataSample_CreateString", timestamp, value)

CreateJson(timestamp, value, ok, strOk) ==
    /\ ~fatal
    /\ Created(dataSample_CreateJson(Machine(0, FALSE), timestamp, value, Clock,
                                     ok, strOk),
               "dataSample_CreateJson", timestamp, value)

AddRef(s) ==
    /\ ~fatal
    /\ SampleUsed(s)
    /\ samples.obj[s].refCount < MaxRefs
    /\ Commit([m |-> le_mem_AddRefSample(Machine(0, FALSE), s), ret |-> LE_OK,
               out |-> NULL], "le_mem_AddRef", NULL, <<>>, s)

Release(s) ==
    /\ ~fatal
    /\ SampleUsed(s)
    /\ Commit([m |-> le_mem_ReleaseSample(Machine(0, FALSE), s), ret |-> LE_OK,
               out |-> NULL], "le_mem_Release", NULL, <<>>, s)

SetTimestamp(s, timestamp) ==
    /\ ~fatal
    /\ SampleUsed(s)
    /\ Commit([m |-> dataSample_SetTimestamp(Machine(0, FALSE), s, timestamp),
               ret |-> LE_OK, out |-> NULL],
              "dataSample_SetTimestamp", timestamp, <<>>, s)

Extracted(r, x, s) ==
    Commit([m |-> r.m, ret |-> r.type, out |-> r.rv], "dataSample_ExtractJson",
           NULL, x.text, s)

ExtractJson(s, x, ok, strOk) ==
    /\ ~fatal
    /\ SampleUsed(s)
    /\ samples.obj[s].pool = StringBasedDataSamplePool
    /\ Extracted(dataSample_ExtractJson(Machine(0, FALSE), s, x, Clock, ok, strOk),
                 x, s)

Converted(c, size, s) ==
    Commit([m |-> Machine(0, FALSE), ret |-> c.rc, out |-> size],
           "dataSample_ConvertToJson", NULL, c.buf, s)

ConvertToJson(s, dataType, size) ==
    /\ ~fatal
    /\ SampleUsed(s)
    /\ dataType \in TypesOf(s)
    /\ dataType = IO_DATA_TYPE_STRING \/ size > 0
    /\ Converted(dataSample_ConvertToJson(samples.obj[s].value, StringOf(s),
                                          dataType, size), size, s)

AnyFailure == {NoFailure} \cup EntryFailures \cup ResFailures

\* Spec: the tree under /obs.  Calls address /obs and /obs/x, spelled in
\* every way the code tells apart, and malformed paths.
RootPaths == {pObs, pObsX, pAbsObsX, pBadEmptyMid, pBadLong}
ObsPaths == {sX}
AbsPaths == {pAbsObsX, pObs}
\* the snapshot flag operations are applied to /obs
FlagEntries == {3}
Calls == CallsOn(RootPaths, ObsPaths)

Next ==
    \/ \E c \in Calls : Find(c[1], c[2])
    \/ \E path \in AbsPaths : FindAbs(path)
    \/ \E c \in Calls, f \in {NoFailure} \cup EntryFailures :
           GetEntry(c[1], c[2], f.budget)
    \/ \E c \in Calls, f \in AnyFailure : GetResource(c[1], c[2], f.budget, f.resOk)
    \/ \E c \in Calls, f \in AnyFailure : CreateInput(c[1], c[2], f.budget, f.resOk)
    \/ \E c \in Calls, f \in AnyFailure : CreateOutput(c[1], c[2], f.budget, f.resOk)
    \/ \E c \in Calls, f \in AnyFailure : GetObservation(c[1], c[2], f.budget, f.resOk)
    \/ \E e \in Ids : DeleteIO(e)
    \/ \E e \in Ids : DeleteObservation(e)
    \/ \E e \in Ids : SetDefault(e)
    \/ \E e \in Ids : RemoveDefault(e)
    \/ \E e \in FlagEntries, relevant \in BOOLEAN : SetRelevance(e, relevant)
    \/ \E e \in FlagEntries : SetClearNewnessFlag(e)
    \/ \E e \in FlagEntries : ClearNewness(e)

Spec == Init /\ [][Next]_vars

\* SpecRoot: calls addressed at the root itself (the empty path) and at /obs.
RootPathsR == {<<>>, pObs}
ObsPathsR == {<<>>}
AbsPathsR == {<<SLASH>>, pAbsA}
FlagEntriesR == {RootPtr}
CallsR == CallsOn(RootPathsR, ObsPathsR)

NextRoot ==
    \/ \E c \in CallsR : Find(c[1], c[2])
    \/ \E path \in AbsPathsR : FindAbs(path)
    \/ \E c \in CallsR, f \in {NoFailure} \cup EntryFailures :
           GetEntry(c[1], c[2], f.budget)
    \/ \E c \in CallsR, f \in AnyFailure : GetResource(c[1], c[2], f.budget, f.resOk)
    \/ \E c \in CallsR, f \in AnyFailure : CreateInput(c[1], c[2], f.budget, f.resOk)
    \/ \E c \in CallsR, f \in AnyFailure : CreateOutput(c[1], c[2], f.budget, f.resOk)
    \/ \E c \in CallsR, f \in AnyFailure : GetObservation(c[1], c[2], f.budget, f.resOk)
    \/ \E e \in Ids : DeleteIO(e)
    \/ \E e \in Ids : DeleteObservation(e)
    \/ \E e \in Ids : SetDefault(e)
    \/ \E e \in Ids : RemoveDefault(e)
    \/ \E e \in FlagEntriesR, relevant \in BOOLEAN : SetRelevance(e, relevant)
    \/ \E e \in FlagEntriesR : SetClearNewnessFlag(e)
    \/ \E e \in FlagEntriesR : ClearNewness(e)

SpecRoot == Init /\ [][NextRoot]_vars

\* SpecFlat: two children of the root, /a and /obs, created, promoted and
\* deleted in any order.
RootPathsF == {sA, pObs, pAbsA}
CallsF == CallsOn(RootPathsF, {})

NextFlat ==
    \/ \E c \in CallsF : Find(c[1], c[2])
    \/ \E c \in CallsF, f \in {NoFailure} \cup EntryFailures :
           GetEntry(c[1], c[2], f.budget)
    \/ \E c \in CallsF, f \in AnyFailure : GetResource(c[1], c[2], f.budget, f.resOk)
    \/ \E c \in CallsF, f \in AnyFailure : CreateInput(c[1], c[2], f.budget, f.resOk)
    \/ \E c \in CallsF, f \in AnyFailure : GetObservation(c[1], c[2], f.budget, f.resOk)
    \/ \E e \in Ids : DeleteIO(e)
    \/ \E e \in Ids : DeleteObservation(e)

SpecFlat == Init /\ [][NextFlat]_vars

\* SpecSnap: the tree under /obs with the snapshot's commit and flush phases
\* running between the calls.  The callers keep to the preconditions: the
\* paths are well formed, inputs are created where no resource lives, and
\* no allocation fails.
RootPathsS == {pObs, pObsX}
CallsS == CallsOn(RootPathsS, {})

NextSnap ==
    \/ \E c \in CallsS : Find(c[1], c[2])
    \/ \E c \in CallsS : GetEntry(c[1], c[2], NoFailure.budget)
    \/ \E c \in CallsS : GetResource(c[1], c[2], NoFailure.budget, NoFailure.resOk)
    \/ \E c \in CallsS : CreateInput(c[1], c[2], NoFailure.budget, NoFailure.resOk)
    \/ \E c \in CallsS : GetObservation(c[1], c[2], NoFailure.budget, NoFailure.resOk)
    \/ \E e \in Ids : DeleteIO(e)
    \/ \E e \in Ids : DeleteObservation(e)
    \/ SnapshotCommit
    \/ SnapshotFlush

SpecSnap == Init /\ [][NextSnap]_vars

\* SpecPath: the entries /a, /obs and /obs/x are created (and /a deleted),
\* looked up under every spelling of their paths, and rendered by
\* resTree_GetPath relative to every entry, into buffers of several sizes.
pAbsObs == <<SLASH>> \o sObs
RootPathsP == {sA, pObs, pObsX}
FindPathsP == {<<>>, sA, pAbsA, pObs, pAbsObs, pObsX, pAbsObsX}
BuffSizes == {1, 5, HUB_MAX_RESOURCE_PATH_BYTES}

NextPath ==
    \/ \E path \in FindPathsP : Find(RootPtr, path)
    \/ \E path \in RootPathsP : GetEntry(RootPtr, path, NoFailure.budget)
    \/ CreateInput(RootPtr, sA, NoFailure.budget, NoFailure.resOk)
    \/ \E e \in Ids : DeleteIO(e)
    \/ \E base \in Ids, e \in Ids, size \in BuffSizes : GetPath(base, e, size)

SpecPath == Init /\ [][NextPath]_vars

\* SpecWalk: the root, /a, /obs and /obs/x are created, promoted to inputs
\* and deleted, and the tree is walked: child by child, and by
\* resTree_ForEachResource.
RootPathsW == {<<>>, sA, pObs, pObsX}

NextWalk ==
    \/ \E path \in RootPathsW : GetEntry(RootPtr, path, NoFailure.budget)
    \/ \E path \in RootPathsW :
           CreateInput(RootPtr, path, NoFailure.budget, NoFailure.resOk)
    \/ \E e \in Ids : DeleteIO(e)
    \/ \E e \in Ids : GetFirstChild(e)
    \/ \E e \in Ids : GetNextSibling(e)
    \/ ForEachResource

SpecWalk == Init /\ [][NextWalk]_vars

\* SpecFacade: /a and /obs become namespaces, placeholders, inputs and
\* observations and are deleted again; samples are pushed to every entry and
\* the observation-only functions are applied to every entry.
RootPathsO == {sA, pObs}

NextFacade ==
    \/ \E path \in RootPathsO : GetEntry(RootPtr, path, NoFailure.budget)
    \/ \E path \in RootPathsO :
           GetResource(RootPtr, path, NoFailure.budget, NoFailure.resOk)
    \/ \E path \in RootPathsO :
           CreateInput(RootPtr, path, NoFailure.budget, NoFailure.resOk)
    \/ \E path \in RootPathsO :
           GetObservation(RootPtr, path, NoFailure.budget, NoFailure.resOk)
    \/ \E e \in Ids : DeleteIO(e)
    \/ \E e \in Ids : DeleteObservation(e)
    \/ \E e \in Ids, rc \in PushResults : Push(e, rc)
    \/ \E e \in Ids, fn \in ObservationOnly : Facade(fn, e)

SpecFacade == Init /\ [][NextFacade]_vars

\* SpecResource: /a and /obs are created as entries, placeholders, inputs and
\* observations and are deleted again; the resource functions, the
\* observation-only functions and set_source are applied to every entry.
NextResource ==
    \/ \E path \in RootPathsO : GetEntry(RootPtr, path, NoFailure.budget)
    \/ \E path \in RootPathsO :
           GetResource(RootPtr, path, NoFailure.budget, NoFailure.resOk)
    \/ \E path \in RootPathsO :
           CreateInput(RootPtr, path, NoFailure.budget, NoFailure.resOk)
    \/ \E path \in RootPathsO :
           GetObservation(RootPtr, path, NoFailure.budget, NoFailure.resOk)
    \/ \E e \in Ids : DeleteIO(e)
    \/ \E e \in Ids : DeleteObservation(e)
    \/ \E e \in Ids, fn \in ResourceFunctions : ResourceFacade(fn, e)
    \/ \E e \in Ids, fn \in ObservationOnly : Facade(fn, e)
    \/ \E dest \in Ids, src \in Ids \cup {NULL} : SetSource(dest, src)

SpecResource == Init /\ [][NextResource]_vars

\* SpecSample: samples of every type are created (also when a pool refuses a
\* block), shared, released, re-stamped and extracted from.
NextSample ==
    \/ \E t \in Timestamps, ok \in BOOLEAN : CreateTrigger(t, ok)
    \/ \E t \in Timestamps, ok \in BOOLEAN : CreateBoolean(t, BoolTrue, ok)
    \/ \E t \in Timestamps, ok \in BOOLEAN : CreateNumeric(t, ok)
    \/ \E t \in Timestamps, v \in Payloads, f \in Refusals :
           CreateString(t, v, f.ok, f.strOk)
    \/ \E t \in Timestamps, f \in Refusals : CreateJson(t, TextObject, f.ok, f.strOk)
    \/ \E s \in SampleIds : AddRef(s)
    \/ \E s \in SampleIds : Release(s)
    \/ \E s \in SampleIds, t \in Timestamps : SetTimestamp(s, t)
    \/ \E s \in SampleIds, x \in Extractions, f \in Refusals :
           ExtractJson(s, x, f.ok, f.strOk)

SpecSample == Init /\ [][NextSample]_vars

\* SpecConvert: samples of every type are created, released and converted to
\* JSON into buffers of every size.
NextConvert ==
    \/ \E t \in Timestamps : CreateTrigger(t, TRUE)
    \/ \E t \in Timestamps, v \in {BoolTrue, BoolFalse} : CreateBoolean(t, v, TRUE)
    \/ \E t \in Timestamps : CreateNumeric(t, TRUE)
    \/ \E t \in Timestamps, v \in Payloads : CreateString(t, v, TRUE, TRUE)
    \/ \E t \in Timestamps : CreateJson(t, TextObject, TRUE, TRUE)
    \/ \E s \in SampleIds : Release(s)
    \/ \E s \in SampleIds, size \in ValueBuffSizes :
           \E dataType \in TypesOf(s) : ConvertToJson(s, dataType, size)

SpecConvert == Init /\ [][NextConvert]_vars

TypeOK ==
    /\ fatal \in BOOLEAN
    /\ \A e \in Ids : ent[e].type \in EntryTypes /\ ent[e].flags \subseteq Flags

\* ================================================================ properties
\* what an observer sees of the tree: the entries, their links and order,
\* their type, flags and resource (everything but the reference counts)
Tree(e_) ==
    [e \in Ids |-> [used |-> e_[e].used, parentPtr |-> e_[e].parentPtr,
                    name |-> e_[e].name, childList |-> e_[e].childList,
                    type |-> e_[e].type, flags |-> e_[e].flags,
                    resourcePtr |-> e_[e].resourcePtr]]

PathOps == {"resTree_GetEntry", "resTree_GetResource", "resTree_CreateInput",
            "resTree_CreateOutput", "resTree_GetObservation"}
ResourceOps == PathOps \ {"resTree_GetEntry"}
Lookups == {"resTree_FindEntry", "resTree_FindEntryAtAbsolutePath",
            "resTree_GetEntry", "resTree_GetResource", "resTree_GetObservation"}
IoTypes == {ADMIN_ENTRY_TYPE_INPUT, ADMIN_ENTRY_TYPE_OUTPUT}

\* ------------------------------------------------------------------------ C1
\* a type assignment t made by operation op, the resource of the entry
\* having (or not) administrative settings when the operation began
AllowedTransition(t, op, hadAdminSettings) ==
    \/ /\ t.from = ADMIN_ENTRY_TYPE_NAMESPACE /\ t.to = ADMIN_ENTRY_TYPE_PLACEHOLDER
       /\ op \in ResourceOps
    \/ /\ t.from = ADMIN_ENTRY_TYPE_PLACEHOLDER /\ t.to = ADMIN_ENTRY_TYPE_INPUT
       /\ op = "resTree_CreateInput"
    \/ /\ t.from = ADMIN_ENTRY_TYPE_PLACEHOLDER /\ t.to = ADMIN_ENTRY_TYPE_OUTPUT
       /\ op = "resTree_CreateOutput"
    \/ /\ t.from = ADMIN_ENTRY_TYPE_PLACEHOLDER /\ t.to = ADMIN_ENTRY_TYPE_OBSERVATION
       /\ op = "resTree_GetObservation"
    \/ /\ t.from \in IoTypes /\ t.to = ADMIN_ENTRY_TYPE_PLACEHOLDER
       /\ op = "resTree_DeleteIO" /\ hadAdminSettings
    \/ /\ t.from \in IoTypes /\ t.to = ADMIN_ENTRY_TYPE_NAMESPACE
       /\ op = "resTree_DeleteIO" /\ ~hadAdminSettings
    \/ /\ t.from = ADMIN_ENTRY_TYPE_OBSERVATION /\ t.to = ADMIN_ENTRY_TYPE_NAMESPACE
       /\ op = "resTree_DeleteObservation"

HadAdminSettings(e) ==
    /\ ent[e].resourcePtr # NULL
    /\ res_HasAdminSettings(res, ent[e].resourcePtr)

\* C1: with delete_io applied to inputs/outputs only and delete_observation to
\* observations only, every step changes the type of an entry only by
\* namespace->placeholder (get_resource, also inside create_input,
\* create_output and get_observation), placeholder->input (create_input),
\* placeholder->output (create_output), placeholder->observation
\* (get_observation), input|output->placeholder (delete_io, admin settings),
\* input|output->namespace (delete_io, no admin settings) and
\* observation->namespace (delete_observation); an entry whose type differs
\* after the step went through such assignments, from its old type to its new.
C1_TypeTransitions ==
    [][/\ \A k \in 1 .. Len(last'.trans) :
              AllowedTransition(last'.trans[k], last'.op,
                                HadAdminSettings(last'.trans[k].entry))
       /\ \A e \in Ids :
              (ent[e].used /\ ent'[e].used /\ ent'[e].type # ent[e].type)
                  => \E i, j \in 1 .. Len(last'.trans) :
                         /\ i <= j
                         /\ last'.trans[i].entry = e /\ last'.trans[j].entry = e
                         /\ last'.trans[i].from = ent[e].type
                         /\ last'.trans[j].to = ent'[e].type]_vars

\* delete_io has turned an input with admin settings back into a placeholder
C1_Witness ==
    /\ last.op = "resTree_DeleteIO"
    /\ last.trans # <<>>
    /\ last.trans[1].from = ADMIN_ENTRY_TYPE_INPUT
    /\ last.trans[1].to = ADMIN_ENTRY_TYPE_PLACEHOLDER
    /\ ent[last.entry].type = ADMIN_ENTRY_TYPE_PLACEHOLDER

\* ------------------------------------------------------------------------ C2
\* the first zombie the walk of CreateEntry meets on a path, or NULL
RECURSIVE ZombieOnPathFrom(_, _, _, _)
ZombieOnPathFrom(e_, currentEntry, path, i) ==
    IF i > Len(path) THEN NULL
    ELSE LET j == IF path[i] = SLASH THEN i + 1 ELSE i
             nameLen == strchrnul(path, j) - j
             childPtr == resTree_FindChildEx(e_, currentEntry,
                                             SubSeq(path, j, j + nameLen - 1), TRUE)
         IN IF childPtr = NULL THEN NULL
            ELSE IF resTree_IsDeleted(e_, childPtr) THEN childPtr
            ELSE ZombieOnPathFrom(e_, childPtr, path, j + nameLen)

ZombieOnPath(base, path) ==
    IF hub_IsResourcePathMalformed(path) THEN NULL
    ELSE ZombieOnPathFrom(ent, base, path, 1)

NamedLike(e_, parent, name) ==
    {k \in 1 .. Len(e_[parent].childList) : e_[e_[parent].childList[k]].name = name}

\* C2: when get_entry or get_resource creates a well-formed path on which a
\* zombie occupies a segment name (and no allocation fails), the call returns
\* LE_OK and that same entry is alive afterwards: not DELETED, its flags
\* exactly NEW when it is still a namespace, and the only child of its parent
\* with that name.
C2_ZombieResurrected ==
    [][(/\ last'.op \in {"resTree_GetEntry", "resTree_GetResource"}
        /\ ZombieOnPath(last'.base, last'.path) # NULL
        /\ last'.ret # LE_NO_MEMORY)
       => LET z == ZombieOnPath(last'.base, last'.path)
          IN /\ last'.ret = LE_OK
             /\ ent'[z].used
             /\ ent'[z].parentPtr = ent[z].parentPtr
             /\ ent'[z].name = ent[z].name
             /\ ~resTree_IsDeleted(ent', z)
             /\ (ent'[z].type = ADMIN_ENTRY_TYPE_NAMESPACE
                    => ent'[z].flags = {RES_FLAG_NEW})
             /\ Cardinality(NamedLike(ent', ent[z].parentPtr, ent[z].name)) = 1]_vars

\* ------------------------------------------------------------------------ C3
\* C3: no lookup (find, find at absolute path, get_entry, get_resource,
\* get_observation) returns an entry whose DELETED flag is set.
C3_NoDeletedReturned ==
    (last.op \in Lookups /\ last.ret = LE_OK /\ last.out # NULL)
        => ~resTree_IsDeleted(ent, last.out)

\* ------------------------------------------------------------------------ C4
\* C4: get_entry(base, p) called again right after it returned LE_OK returns
\* LE_OK and the same entry, allocates no entry and leaves every entry (type,
\* flags, links, counts) and every resource as it was.
C4_GetEntryIdempotent ==
    [][(/\ last.op = "resTree_GetEntry" /\ last.ret = LE_OK
        /\ last'.op = "resTree_GetEntry"
        /\ last'.base = last.base /\ last'.path = last.path)
       => /\ last'.ret = LE_OK
          /\ last'.out = last.out
          /\ last'.allocs = {} /\ last'.frees = {}
          /\ ent' = ent /\ res' = res]_vars

\* get_entry was repeated on a path it had created (allocation refused or not)
C4_Witness ==
    /\ last.op = "resTree_GetEntry" /\ last.again
    /\ last.path = pObsX
    /\ last.ret = LE_OK /\ last.out = 4

\* ------------------------------------------------------------------------ C5
\* C5: when get_entry returns LE_NO_MEMORY the entry reference is NULL and
\* the tree is as before the call: the same entries, links and order, and
\* the same type and flags on every entry, zombies on the path included.
C5_GetEntryRollback ==
    [][(last'.op = "resTree_GetEntry" /\ last'.ret = LE_NO_MEMORY)
       => /\ last'.out = NULL
          /\ Tree(ent') = Tree(ent)
          /\ res' = res]_vars

\* ------------------------------------------------------------------------ C6
\* C6: when get_resource returns LE_NO_MEMORY because the engine could not
\* allocate the placeholder, the entry reference is NULL and the tree is as
\* before the call.
C6_GetResourceRollback ==
    [][(/\ last'.op = "resTree_GetResource" /\ last'.ret = LE_NO_MEMORY
        /\ last'.resDenied)
       => /\ last'.out = NULL
          /\ Tree(ent') = Tree(ent)
          /\ res' = res]_vars

\* ------------------------------------------------------------------------ C7
\* C7: get_entry, get_resource, create_input, create_output and
\* get_observation on a malformed path return LE_BAD_PARAMETER and change
\* nothing: no entry is allocated, freed, resurrected or retyped, no resource
\* is touched, and no change handler is called.
C7_MalformedPath ==
    [][(last'.op \in PathOps /\ hub_IsResourcePathMalformed(last'.path))
       => /\ last'.ret = LE_BAD_PARAMETER
          /\ last'.out = NULL
          /\ ent' = ent /\ res' = res
          /\ last'.allocs = {} /\ last'.frees = {}
          /\ last'.trans = <<>> /\ last'.notes = <<>>]_vars

\* create_input was refused a path with an empty element
C7_Witness ==
    /\ last.op = "resTree_CreateInput"
    /\ last.path = pBadEmptyMid
    /\ last.ret = LE_BAD_PARAMETER
    /\ ObsBase # NULL

\* ------------------------------------------------------------------------ C8
\* the entry a well-formed path resolves to, or NULL
Resolved(base, path) ==
    IF hub_IsResourcePathMalformed(path) THEN NULL ELSE FindEntry(ent, base, path)

\* C8: get_observation on a path where an input or an output lives returns
\* LE_BAD_PARAMETER, leaves the entry's type and resource (and everything
\* else) unchanged, creates no entry and calls no change handler.
C8_ObservationRefused ==
    [][(/\ last'.op = "resTree_GetObservation"
        /\ Resolved(last'.base, last'.path) # NULL
        /\ ent[Resolved(last'.base, last'.path)].type \in IoTypes)
       => /\ last'.ret = LE_BAD_PARAMETER
          /\ last'.out = NULL
          /\ ent' = ent /\ res' = res
          /\ last'.allocs = {}
          /\ last'.trans = <<>> /\ last'.notes = <<>>]_vars

\* get_observation was refused on /obs/x, which is an output
C8_Witness ==
    /\ last.op = "resTree_GetObservation"
    /\ last.ret = LE_BAD_PARAMETER
    /\ Resolved(last.base, last.path) = 4
    /\ ent[4].type = ADMIN_ENTRY_TYPE_OUTPUT

\* ------------------------------------------------------------------------ C9
\* e is a child of the observations namespace /obs
UnderObs(e) ==
    /\ ent[e].parentPtr \notin {NULL, RootPtr}
    /\ ent[ent[e].parentPtr].parentPtr = RootPtr
    /\ ent[ent[e].parentPtr].name = sObs

\* C9: a placeholder that get_resource creates for an entry under /obs is an
\* observation placeholder, however the path is spelled ("obs/x" and "/obs/x"
\* from the root, "x" from the observations namespace).
C9_ObsPlaceholder ==
    (/\ last.op = "resTree_GetResource" /\ last.ret = LE_OK
     /\ last.trans # <<>>
     /\ UnderObs(last.out))
        => res[ent[last.out].resourcePtr].kind = "obsPlaceholder"

\* ----------------------------------------------------------------------- C10
\* C10: get_observation on a path that resolves to an observation returns
\* LE_OK and that entry, leaves its type and resource (and everything else)
\* unchanged, and calls no change handler.
C10_GetObservationIdempotent ==
    [][(/\ last'.op = "resTree_GetObservation"
        /\ Resolved(last'.base, last'.path) # NULL
        /\ ent[Resolved(last'.base, last'.path)].type = ADMIN_ENTRY_TYPE_OBSERVATION)
       => /\ last'.ret = LE_OK
          /\ last'.out = Resolved(last'.base, last'.path)
          /\ ent' = ent /\ res' = res
          /\ last'.trans = <<>> /\ last'.notes = <<>>]_vars

\* get_observation was repeated on the observation it had promoted
C10_Witness ==
    /\ last.op = "resTree_GetObservation" /\ last.again
    /\ last.ret = LE_OK /\ last.out # NULL
    /\ ent[last.out].type = ADMIN_ENTRY_TYPE_OBSERVATION
    /\ last.notes = <<>>

\* ----------------------------------------------------------------------- C12
\* C12: delete_io on an input or output whose resource has admin settings
\* leaves the entry where it was (same parent, name, position, children and
\* reference count) with type placeholder and the same resource, which keeps
\* its settings; nothing is freed and no other entry changes.  create_input
\* and create_output on a path that resolves to a placeholder return LE_OK
\* and that same entry, now an input / output, and allocate no entry.
C12_PlaceholderKept ==
    [][/\ (last'.op = "resTree_DeleteIO" /\ HadAdminSettings(last'.entry))
          => /\ last'.ret = LE_OK
             /\ ent' = [ent EXCEPT ![last'.entry].type = ADMIN_ENTRY_TYPE_PLACEHOLDER]
             /\ last'.frees = {}
             /\ res'[ent[last'.entry].resourcePtr].used
             /\ res'[ent[last'.entry].resourcePtr].admin
       /\ (/\ last'.op \in {"resTree_CreateInput", "resTree_CreateOutput"}
           /\ Resolved(last'.base, last'.path) # NULL
           /\ ent[Resolved(last'.base, last'.path)].type = ADMIN_ENTRY_TYPE_PLACEHOLDER
           /\ last'.ret # LE_NO_MEMORY)
          => /\ last'.ret = LE_OK
             /\ last'.out = Resolved(last'.base, last'.path)
             /\ last'.allocs = {} /\ last'.frees = {}
             /\ ent'[last'.out].type =
                    (IF last'.op = "resTree_CreateInput"
                     THEN ADMIN_ENTRY_TYPE_INPUT ELSE ADMIN_ENTRY_TYPE_OUTPUT)
             /\ ent' = [ent EXCEPT ![last'.out].type = ent'[last'.out].type,
                                   ![last'.out].resourcePtr = ent'[last'.out].resourcePtr]
             /\ res'[ent'[last'.out].resourcePtr].admin
                    = res[ent[last'.out].resourcePtr].admin]_vars

\* create_input has reused the placeholder that delete_io left of an input
\* with admin settings
C12_Witness ==
    /\ last.op = "resTree_CreateInput" /\ last.ret = LE_OK
    /\ last.allocs = {}
    /\ last.trans # <<>>
    /\ last.trans[1].from = ADMIN_ENTRY_TYPE_PLACEHOLDER
    /\ ent[last.out].type = ADMIN_ENTRY_TYPE_INPUT
    /\ res[ent[last.out].resourcePtr].admin

\* ----------------------------------------------------------------------- C13
\* the entry a well-formed path leads to when deleted entries are walked
\* through like any other, or NULL
RECURSIVE WalkFrom(_, _, _, _)
WalkFrom(e_, currentEntry, path, i) ==
    IF i > Len(path) THEN currentEntry
    ELSE LET j == IF path[i] = SLASH THEN i + 1 ELSE i
             nameLen == strchrnul(path, j) - j
             childPtr == resTree_FindChildEx(e_, currentEntry,
                                             SubSeq(path, j, j + nameLen - 1), TRUE)
         IN IF childPtr = NULL THEN NULL
            ELSE WalkFrom(e_, childPtr, path, j + nameLen)

Walk(e_, base, path) ==
    IF hub_IsResourcePathMalformed(path) THEN NULL ELSE WalkFrom(e_, base, path, 1)

DeleteOps == {"resTree_DeleteIO", "resTree_DeleteObservation"}
CreateOps == {"resTree_CreateInput", "resTree_CreateOutput", "resTree_GetObservation"}
\* the step deletes a resource that has no admin settings (observations are
\* deleted whatever their settings)
Deletes(op, e) ==
    \/ op = "resTree_DeleteIO" /\ ~HadAdminSettings(e)
    \/ op = "resTree_DeleteObservation"

\* C13: delete_io on an input or output without admin settings, and
\* delete_observation, leave the entry (while it is kept) a namespace with no
\* resource, its former resource freed and its count one lower (not counting
\* the reference the snapshot takes on a tombstone); find on every path that
\* led to the entry then returns nothing; and create_input, create_output or
\* get_observation called next on such a path returns LE_OK (no allocation
\* failing) with the resource type asked for.
C13_DeleteThenCreate ==
    [][/\ Deletes(last'.op, last'.entry)
          => LET e == last'.entry
             IN /\ last'.ret = LE_OK
                /\ ~res'[ent[e].resourcePtr].used
                /\ ent'[e].used =>
                      /\ ent'[e].type = ADMIN_ENTRY_TYPE_NAMESPACE
                      /\ ent'[e].resourcePtr = NULL
                      /\ ent'[e].refCount = ent[e].refCount - 1
                             + (IF RES_FLAG_DELETED \in ent'[e].flags THEN 1 ELSE 0)
                /\ \A c \in Calls :
                      Walk(ent, c[1], c[2]) = e
                          => resTree_FindEntry(ent', c[1], c[2]) = NULL
       /\ (/\ last.op \in DeleteOps /\ last.trans # <<>>
           /\ last.trans[1].to = ADMIN_ENTRY_TYPE_NAMESPACE
           /\ last'.op \in CreateOps
           /\ Walk(ent, last'.base, last'.path) = last.entry
           /\ last'.ret # LE_NO_MEMORY)
          => /\ last'.ret = LE_OK
             /\ last'.out # NULL
             /\ ent'[last'.out].type =
                    (CASE last'.op = "resTree_CreateInput" -> ADMIN_ENTRY_TYPE_INPUT
                       [] last'.op = "resTree_CreateOutput" -> ADMIN_ENTRY_TYPE_OUTPUT
                       [] OTHER -> ADMIN_ENTRY_TYPE_OBSERVATION)]_vars

\* the part of C13 about the deletion itself
C13_DeletionOnly ==
    [][Deletes(last'.op, last'.entry)
          => LET e == last'.entry
             IN /\ last'.ret = LE_OK
                /\ ~res'[ent[e].resourcePtr].used
                /\ ent'[e].used =>
                      /\ ent'[e].type = ADMIN_ENTRY_TYPE_NAMESPACE
                      /\ ent'[e].resourcePtr = NULL
                      /\ ent'[e].refCount = ent[e].refCount - 1
                             + (IF RES_FLAG_DELETED \in ent'[e].flags THEN 1 ELSE 0)
                /\ \A c \in Calls :
                      Walk(ent, c[1], c[2]) = e
                          => resTree_FindEntry(ent', c[1], c[2]) = NULL]_vars

\* ----------------------------------------------------------------------- C14
\* the node e is new (not yet seen by a snapshot) in the current state
IsNewNow(e) == resTree_IsNew([ent |-> ent, res |-> res], e)

\* C14: when delete_io (no admin settings) or delete_observation deletes a
\* resource entry, the entry is kept as a namespace with DELETED set if and
\* only if the node was not new when the call began; a node that was still
\* new is dropped from the tree and leaves no tombstone.
C14_TombstoneRule ==
    [][Deletes(last'.op, last'.entry)
          => LET e == last'.entry
             IN /\ (ent'[e].used /\ resTree_IsDeleted(ent', e)) <=> ~IsNewNow(e)
                /\ IsNewNow(e) => ~ent'[e].used]_vars

\* ----------------------------------------------------------------------- C15
\* C15: every entry whose DELETED flag is set is a namespace and its NEW flag
\* is clear.
C15_DeletedIsOldNamespace ==
    \A e \in Ids :
        (ent[e].used /\ RES_FLAG_DELETED \in ent[e].flags)
            => /\ ent[e].type = ADMIN_ENTRY_TYPE_NAMESPACE
               /\ RES_FLAG_NEW \notin ent[e].flags

\* a flag setter has acted on a tombstone that delete_io left
C15_Witness ==
    /\ last.op = "resTree_SetClearNewnessFlag"
    /\ ent[last.entry].used
    /\ ent[last.entry].flags = {RES_FLAG_DELETED, RES_FLAG_CLEAR_NEW}

\* ----------------------------------------------------------------------- C16
FlagOps == {"resTree_ClearNewness", "resTree_SetRelevance",
            "resTree_SetClearNewnessFlag"}

\* C16: on a namespace entry, clear_newness removes NEW and CLEAR_NEW from
\* the flags and nothing else, set_clear_newness adds CLEAR_NEW and nothing
\* else, set_relevance changes no flag but RELEVANT; the entry's type, links
\* and count, every other entry and every resource stay as they were.
C16_FlagFrame ==
    [][(last'.op \in FlagOps /\ ent[last'.entry].type = ADMIN_ENTRY_TYPE_NAMESPACE)
       => LET e == last'.entry
          IN /\ last'.ret = LE_OK
             /\ ent' = [ent EXCEPT ![e].flags = ent'[e].flags]
             /\ res' = res
             /\ last'.op = "resTree_ClearNewness"
                   => ent'[e].flags = ent[e].flags \ {RES_FLAG_NEW, RES_FLAG_CLEAR_NEW}
             /\ last'.op = "resTree_SetClearNewnessFlag"
                   => ent'[e].flags = ent[e].flags \cup {RES_FLAG_CLEAR_NEW}
             /\ last'.op = "resTree_SetRelevance"
                   => ent'[e].flags \ {RES_FLAG_RELEVANT}
                          = ent[e].flags \ {RES_FLAG_RELEVANT}]_vars

\* clear_newness has acted on a relevant tombstone: RELEVANT and DELETED are
\* still set
C16_Witness ==
    /\ last.op = "resTree_ClearNewness"
    /\ ent[last.entry].used
    /\ ent[last.entry].flags = {RES_FLAG_RELEVANT, RES_FLAG_DELETED}

\* ----------------------------------------------------------------------- C19
Roots == {e \in Ids : ent[e].used /\ ent[e].parentPtr = NULL}

\* C19: there is exactly one root entry, RootPtr, with the empty name and no
\* parent; it is never freed, never marked DELETED, and always holds the
\* count the module initialiser took on it besides those of its children.
C19_RootPermanent ==
    /\ Roots = {RootPtr}
    /\ ent[RootPtr].name = <<>>
    /\ RootPtr \notin last.frees
    /\ ~resTree_IsDeleted(ent, RootPtr)
    /\ ent[RootPtr].refCount >= 1 + Len(ent[RootPtr].childList)

\* the part of C19 about the root's identity
C19_RootUnique ==
    /\ Roots = {RootPtr}
    /\ ent[RootPtr].name = <<>>
    /\ RootPtr \notin last.frees

\* ----------------------------------------------------------------------- C11
\* the entries on the way from base down to e: e and its ancestors below base
RECURSIVE PathEntries(_, _, _)
PathEntries(e_, base, e) ==
    IF e = NULL \/ e = base THEN {}
    ELSE {e} \cup PathEntries(e_, base, e_[e].parentPtr)

\* the entries that exist after the step and did not before
Added == {e \in Ids : ~ent[e].used /\ ent'[e].used}

\* C11: a get_resource(base, p) that returns LE_OK adds no entry but those on
\* the path p below base: every entry that exists after the call and did not
\* before is the returned entry or one of its ancestors below base.
C11_OnlyPathEntries ==
    [][(last'.op = "resTree_GetResource" /\ last'.ret = LE_OK)
       => /\ Added = last'.allocs
          /\ Added \subseteq PathEntries(ent', last'.base, last'.out)]_vars

\* the same for get_entry, which does not create a placeholder
C11_GetEntryOnlyPathEntries ==
    [][(last'.op = "resTree_GetEntry" /\ last'.ret = LE_OK)
       => /\ Added = last'.allocs
          /\ Added \subseteq PathEntries(ent', last'.base, last'.out)]_vars

\* ----------------------------------------------------------------------- C20
\* the children of e that are not deleted, in list order
LiveChildren(e) ==
    SelectSeq(ent[e].childList, LAMBDA c : ~resTree_IsDeleted(ent, c))

\* C20: the names of the non-deleted children of every entry are pairwise
\* distinct.
C20_SiblingNamesDistinct ==
    \A e \in Ids :
        ent[e].used
            => \A i, j \in 1 .. Len(LiveChildren(e)) :
                   i # j => ent[LiveChildren(e)[i]].name # ent[LiveChildren(e)[j]].name

\* C20 counting the deleted children too: the code never lets a tombstone
\* and another child share a name
C20_AllNamesDistinct ==
    \A e \in Ids :
        ent[e].used
            => \A i, j \in 1 .. Len(ent[e].childList) :
                   i # j => ent[ent[e].childList[i]].name # ent[ent[e].childList[j]].name

\* the root has two live children and a get_entry on the name of the second
\* one has found it instead of adding a child
C20_Witness ==
    /\ Len(LiveChildren(RootPtr)) = 2
    /\ last.op = "resTree_GetEntry" /\ last.ret = LE_OK
    /\ last.out = LiveChildren(RootPtr)[2]
    /\ last.allocs = {}

\* ----------------------------------------------------------------------- C18
\* C18: with callers that keep to the preconditions (SpecSnap: well-formed
\* paths, create_input only where no resource lives, delete_io on inputs and
\* outputs only, delete_observation on observations only, no allocation
\* failure) no call reaches a fatal assertion, also when it looks up or
\* creates a path at or below an entry deleted since the last flush.
C18_NoFatalAssertion ==
    /\ ~fatal
    /\ last.ret # "FATAL"

\* ----------------------------------------------------------------------- C17
IsNewAfter(e) == resTree_IsNew([ent |-> ent', res |-> res'], e)
ClearRequiredNow(e) == resTree_IsNewnessClearRequired([ent |-> ent, res |-> res], e)
ClearRequiredAfter(e) == resTree_IsNewnessClearRequired([ent |-> ent', res |-> res'], e)

C17_FlushCompletes == last.op = "snapshot_Flush" => last.ret = LE_OK

C17_NoTombstoneLeft ==
    (last.op = "snapshot_Flush" /\ last.ret = LE_OK)
        => \A e \in Ids : ent[e].used => ~resTree_IsDeleted(ent, e)

\* ----------------------------------------------------------------------- C21
\* how many times e occurs in a list
Occurrences(list, e) == Cardinality({k \in 1 .. Len(list) : list[k] = e})

\* C21: every entry that exists and is not the root occurs exactly once in
\* the child list of its parent, which exists; every member of the child
\* list of an existing entry exists and has that entry as its parent.
C21_ParentChildLinks ==
    \A e \in Ids :
        ent[e].used
            => /\ ent[e].parentPtr # NULL
                    => /\ ent[ent[e].parentPtr].used
                       /\ Occurrences(ent[ent[e].parentPtr].childList, e) = 1
               /\ \A k \in 1 .. Len(ent[e].childList) :
                      /\ ent[ent[e].childList[k]].used
                      /\ ent[ent[e].childList[k]].parentPtr = e

\* the flush has destroyed /obs/x and unlinked it from /obs, which remains
C21_Witness ==
    /\ last.op = "snapshot_Flush"
    /\ 4 \in last.frees
    /\ ent[3].used /\ ent[3].childList = <<>>
    /\ ent[RootPtr].childList = <<3>>

\* ----------------------------------------------------------------------- C22
\* C22: an entry that exists has a resource attached, which exists in the
\* engine, exactly when its type is not namespace, and is_resource is true
\* of exactly the entries whose type is not namespace.
C22_ResourceIffNotNamespace ==
    \A e \in Ids :
        ent[e].used
            => /\ (ent[e].type # ADMIN_ENTRY_TYPE_NAMESPACE) <=> (ent[e].resourcePtr # NULL)
               /\ ent[e].resourcePtr # NULL => res[ent[e].resourcePtr].used
               /\ resTree_IsResource(ent, e) <=> (ent[e].type # ADMIN_ENTRY_TYPE_NAMESPACE)

\* get_resource was refused a placeholder by the engine for /a, which is
\* still a namespace, while /obs is an input
C22_Witness ==
    /\ last.op = "resTree_GetResource" /\ last.resDenied
    /\ last.ret = LE_NO_MEMORY
    /\ Resolved(last.base, last.path) # NULL
    /\ ent[Resolved(last.base, last.path)].type = ADMIN_ENTRY_TYPE_NAMESPACE
    /\ \E e \in Ids : ent[e].used /\ ent[e].type = ADMIN_ENTRY_TYPE_INPUT

\* ----------------------------------------------------------------------- C23
\* the counts on e that are not held by its children
OwnCounts(e_, e) == e_[e].refCount - Len(e_[e].childList)

\* the calls made by clients only: every existing entry has one count for
\* each of its children plus the one taken at its creation
C23_OneOwnCount ==
    \A e \in Ids : ent[e].used => OwnCounts(ent, e) = 1

\* every existing entry has one count for each of its children and at most
\* one more (none once the flush has dropped the snapshot's reference on a
\* tombstone that still has children), and its parent exists
CountsMatchChildren ==
    \A e \in Ids :
        ent[e].used
            => /\ ent[e].refCount >= 1
               /\ OwnCounts(ent, e) \in {0, 1}
               /\ OwnCounts(ent, e) = 0
                      => resTree_IsDeleted(ent, e) /\ ent[e].childList # <<>>
               /\ ent[e].parentPtr # NULL => ent[ent[e].parentPtr].used

\* an entry freed by a step had no child that outlives it and is in no child
\* list afterwards; a parent that outlives it keeps its other counts
DestroyedLast ==
    \A e \in last'.frees :
        /\ ~ent'[e].used
        /\ \A p \in Ids : ent'[p].used => Occurrences(ent'[p].childList, e) = 0
        /\ ent[e].used
               => /\ \A k \in 1 .. Len(ent[e].childList) :
                         ent[e].childList[k] \in last'.frees
                  /\ ent'[ent[e].parentPtr].used
                         => OwnCounts(ent', ent[e].parentPtr)
                                = OwnCounts(ent, ent[e].parentPtr)

\* C23: every existing entry holds one count on its parent (the count of an
\* entry covers its children), so the parent of an existing entry exists
\* and an entry is destroyed only after its children; a destroyed entry is
\* unlinked from its parent and gives back the one count it held on it,
\* which may destroy the parent in turn.
C23_ParentCounts == [](CountsMatchChildren) /\ [][DestroyedLast]_vars

\* the flush has destroyed the tombstone /obs/x and, in cascade, the
\* tombstone /obs, whose last count was x's; the root has its own count left
C23_Witness ==
    /\ last.op = "snapshot_Flush"
    /\ last.frees = {3, 4}
    /\ ent[RootPtr].childList = <<>>
    /\ ent[RootPtr].refCount = 1

\* ----------------------------------------------------------------------- C24
\* what resTree_GetPath renders for the entry the last find returned, relative
\* to the base of that find, into a buffer that is large enough
PathOfFound ==
    resTree_GetPath(ent, HUB_MAX_RESOURCE_PATH_BYTES, last.base, last.out)

FoundFromRoot ==
    /\ last.op = "resTree_FindEntry" /\ last.base = RootPtr
    /\ last.out # NULL

\* C24 as stated: when find(root, p) returns e, path_of(e, root) renders
\* exactly p.
C24_RoundTrip ==
    FoundFromRoot => PathOfFound.rc = LE_OK /\ PathOfFound.str = last.path

\* p with a '/' in front unless it is empty or has one
Absolute(path) ==
    IF path = <<>> \/ path[1] = SLASH THEN path ELSE <<SLASH>> \o path

\* C24: when find(root, p) returns e, path_of(e, root) renders p in its
\* absolute spelling: p itself when p is empty or begins with '/', and
\* otherwise p with a '/' in front; the number of bytes reported is the
\* length of that path.
C24_RoundTripAbsolute ==
    FoundFromRoot
        => /\ PathOfFound.rc = LE_OK
           /\ PathOfFound.str = Absolute(last.path)
           /\ PathOfFound.len = Len(PathOfFound.str)

\* find(root, "obs/x") has returned /obs/x
C24_Witness ==
    /\ FoundFromRoot
    /\ last.path = pObsX
    /\ last.out = 4

\* ----------------------------------------------------------------------- C25
\* e is base or below it
RECURSIVE InSubtree(_, _, _)
InSubtree(e_, base, e) ==
    IF e = base THEN TRUE
    ELSE IF e_[e].parentPtr = NULL THEN FALSE
    ELSE InSubtree(e_, base, e_[e].parentPtr)

\* the names from base (excluded) down to e, a descendant of base, joined
\* with '/'
RECURSIVE JoinedNames(_, _, _)
JoinedNames(e_, base, e) ==
    IF e_[e].parentPtr = base THEN e_[e].name
    ELSE JoinedNames(e_, base, e_[e].parentPtr) \o <<SLASH>> \o e_[e].name

ExpectedPath(e_, base, e) ==
    IF e = base THEN <<>>
    ELSE (IF base = RootPtr THEN <<SLASH>> ELSE <<>>) \o JoinedNames(e_, base, e)

\* what path_of has to give for entry e relative to base with a buffer of
\* size bytes: NotFound outside the subtree, else the expected path when it
\* fits with its terminator
PathOfAsSpecified(g, size, base, e) ==
    IF ~InSubtree(ent, base, e) THEN g.rc = LE_NOT_FOUND
    ELSE IF e = base \/ Len(ExpectedPath(ent, base, e)) < size
    THEN /\ g.rc = LE_OK
         /\ g.str = ExpectedPath(ent, base, e)
         /\ g.len = Len(g.str)
    ELSE g.rc = LE_OVERFLOW

\* C25: path_of(entry, base) reports NotFound exactly when entry is neither
\* base nor below base; for entry = base it gives the empty path; for an
\* entry below base it gives the names from base down to entry joined with
\* '/', with a '/' in front exactly when base is the root (Overflow when
\* that does not fit the buffer).  Checked for every pair of existing
\* entries and every buffer size, and for the call just made.
C25_PathOf ==
    /\ \A base \in Ids, e \in Ids, size \in BuffSizes :
           (ent[base].used /\ ent[e].used)
               => PathOfAsSpecified(resTree_GetPath(ent, size, base, e), size, base, e)
    /\ (last.op = "resTree_GetPath" /\ last.ret = LE_NOT_FOUND)
           => ~InSubtree(ent, last.base, last.entry)
    /\ (last.op = "resTree_GetPath" /\ last.ret = LE_OK)
           => last.path = ExpectedPath(ent, last.base, last.entry)

\* path_of(/a, /obs) has reported NotFound and /obs/x exists, whose path from
\* /obs is "x" and from the root "/obs/x"
C25_Witness ==
    /\ last.op = "resTree_GetPath"
    /\ last.base = 3 /\ last.entry = 2
    /\ last.ret = LE_NOT_FOUND
    /\ ent[4].used
    /\ resTree_GetPath(ent, HUB_MAX_RESOURCE_PATH_BYTES, 3, 4).str = sX
    /\ resTree_GetPath(ent, HUB_MAX_RESOURCE_PATH_BYTES, RootPtr, 4).str = pAbsObsX

\* ---------------------------------------------------------------- C26
\* the entries of the tree in depth-first pre-order, an entry before its
\* children and the children in child-list order
RECURSIVE PreOrderList(_)
PreOrder(e) == <<e>> \o PreOrderList(ent[e].childList)
PreOrderList(list) ==
    IF list = <<>> THEN <<>> ELSE PreOrder(Head(list)) \o PreOrderList(Tail(list))

HasResource(e) ==
    ent[e].type # ADMIN_ENTRY_TYPE_NAMESPACE /\ ent[e].resourcePtr # NULL

Visited == [k \in 1 .. Len(last.calls) |-> last.calls[k].arg]

\* C26: resTree_ForEachResource calls func exactly once for every entry of
\* the tree that has an attached resource, in depth-first pre-order with
\* siblings in child-list order, and never for a DELETED entry.
C26_EveryResourceOnce ==
    last.op = "resTree_ForEachResource" =>
        /\ Visited = SelectSeq(PreOrder(RootPtr), HasResource)
        /\ \A k \in 1 .. Len(Visited) : ~resTree_IsDeleted(ent, Visited[k])

\* what the walk does: it starts at the children of the root, so every
\* resource below the root is visited once in pre-order, and the root's is not
C26_BelowRoot ==
    last.op = "resTree_ForEachResource" =>
        /\ Visited = SelectSeq(PreOrderList(ent[RootPtr].childList), HasResource)
        /\ \A k \in 1 .. Len(Visited) : ~resTree_IsDeleted(ent, Visited[k])
        /\ \A k \in 1 .. Len(Visited) :
              last.calls[k].type = ent[Visited[k]].type

C26_WalkBelowZombie ==
    /\ last.op = "resTree_ForEachResource"
    /\ Len(Visited) >= 2
    /\ \E e \in Ids : ent[e].used /\ resTree_IsDeleted(ent, e)

\* ---------------------------------------------------------------- C27
\* the children an observer meets who starts with resTree_GetFirstChild and
\* goes on with resTree_GetNextSibling until it is given NULL
RECURSIVE IterateFrom(_)
IterateFrom(childPtr) ==
    IF childPtr = NULL THEN <<>>
    ELSE <<childPtr>> \o IterateFrom(resTree_GetNextSibling(ent, childPtr))

IterateChildren(e) == IterateFrom(resTree_GetFirstChild(ent, e))

\* C27: iterating with get_first_child then get_next_sibling, zombies
\* excluded, yields exactly the non-deleted children of the entry, each once,
\* in the order of the child list (AddChild appends, so the order of first
\* insertion), whatever was deleted or resurrected among the siblings.
C27_IterationYieldsLiveChildren ==
    \A e \in Ids : ent[e].used => IterateChildren(e) = LiveChildren(e)

\* what the accessors do: the iteration yields the children up to the first
\* DELETED one, in child-list order
RECURSIVE LivePrefix(_)
LivePrefix(list) ==
    IF list = <<>> \/ resTree_IsDeleted(ent, Head(list)) THEN <<>>
    ELSE <<Head(list)>> \o LivePrefix(Tail(list))

C27_IterationStopsAtZombie ==
    \A e \in Ids : ent[e].used => IterateChildren(e) = LivePrefix(ent[e].childList)

C27_FirstChildHidden ==
    /\ last.op = "resTree_GetFirstChild"
    /\ last.out = NULL
    /\ LiveChildren(last.entry) # <<>>

\* ---------------------------------------------------------------- C28
\* one call of the handlers, for entry e of the tree e_
HandlerCall(e_, e, type, op) ==
    [path |-> ExpectedPath(e_, RootPtr, e), type |-> type, op |-> op, entry |-> e]

\* the entry a call with a path was about, in the tree it left
Target == resTree_FindEntry(ent', last'.base, last'.path)

CreatedAs(type) ==
    /\ Target # NULL
    /\ ent'[Target].type = type
    /\ last'.notes = <<HandlerCall(ent', Target, type, ADMIN_RESOURCE_ADDED)>>

WasObservation ==
    LET f == resTree_FindEntry(ent, last'.base, last'.path)
    IN f # NULL /\ ent[f].type = ADMIN_ENTRY_TYPE_OBSERVATION

RemovedOnce ==
    last'.notes = <<HandlerCall(ent, last'.entry, ent[last'.entry].type,
                                ADMIN_RESOURCE_REMOVED)>>

HandlersCalledOnce ==
    IF last'.ret # LE_OK THEN last'.notes = <<>>
    ELSE IF last'.op = "resTree_CreateInput" THEN CreatedAs(ADMIN_ENTRY_TYPE_INPUT)
    ELSE IF last'.op = "resTree_CreateOutput" THEN CreatedAs(ADMIN_ENTRY_TYPE_OUTPUT)
    ELSE IF last'.op = "resTree_GetObservation"
    THEN IF WasObservation THEN last'.notes = <<>>
         ELSE CreatedAs(ADMIN_ENTRY_TYPE_OBSERVATION)
    ELSE IF last'.op \in {"resTree_DeleteIO", "resTree_DeleteObservation"}
    THEN RemovedOnce
    ELSE last'.notes = <<>>

\* C28: every successful create_input, create_output, promotion by
\* get_observation, delete_io and delete_observation calls the tree-change
\* handlers exactly once before it returns, with the entry's absolute path,
\* its type and the operation (added for creations, removed for deletions,
\* also when delete_io leaves a placeholder); a call that fails, and a call
\* that changes no entry's kind, calls them not at all.
C28_HandlersOncePerChange == [][HandlersCalledOnce]_vars

\* delete_io has left a placeholder behind and reported the removal of the
\* input at /obs/x; get_observation of an existing observation reported nothing
C28_Witness ==
    /\ last.op = "resTree_DeleteIO"
    /\ ent[last.entry].used
    /\ ent[last.entry].type = ADMIN_ENTRY_TYPE_PLACEHOLDER
    /\ last.notes = <<[path |-> pAbsObsX, type |-> ADMIN_ENTRY_TYPE_INPUT,
                       op |-> ADMIN_RESOURCE_REMOVED, entry |-> last.entry]>>

C28_WitnessNoChange ==
    /\ last.op = "resTree_GetObservation"
    /\ last.ret = LE_OK
    /\ last.again
    /\ last.notes = <<>>

\* ---------------------------------------------------------------- C29
PushedTo == last'.entry

PushToNamespace ==
    /\ last'.calls = <<[fn |-> "le_mem_Release", arg |-> SampleRef,
                        type |-> "dataSample", rv |-> VOID]>>
    /\ last'.ret = LE_BAD_PARAMETER
    /\ ent' = ent
    /\ res' = res

PushToResource ==
    /\ Len(last'.calls) = 1
    /\ last'.calls[1].fn = "res_Push"
    /\ last'.calls[1].arg = ent[PushedTo].resourcePtr
    /\ last'.calls[1].arg # NULL
    /\ last'.calls[1].type = IO_DATA_TYPE_NUMERIC
    /\ last'.ret = last'.calls[1].rv
    /\ ent' = ent

\* C29: a push to an entry of type namespace releases exactly one reference
\* on the sample, returns LE_BAD_PARAMETER, does not call the resource engine
\* and leaves the tree unchanged; a push to a placeholder, input, output or
\* observation hands the sample to the attached resource exactly once, the
\* tree layer releasing nothing, and returns what the engine returned.
C29_Push ==
    [][last'.op = "resTree_Push"
          => IF ent[PushedTo].type = ADMIN_ENTRY_TYPE_NAMESPACE
             THEN PushToNamespace
             ELSE PushToResource]_vars

\* a sample was pushed to a tombstone and released, and pushed to an input,
\* where the engine's LE_FAULT was returned
C29_Witness ==
    /\ last.op = "resTree_Push"
    /\ resTree_IsDeleted(ent, last.entry)
    /\ last.ret = LE_BAD_PARAMETER
    /\ Len(last.calls) = 1

C29_WitnessForwarded ==
    /\ last.op = "resTree_Push"
    /\ ent[last.entry].type = ADMIN_ENTRY_TYPE_INPUT
    /\ last.ret = LE_FAULT
    /\ last.calls[1].fn = "res_Push"

\* ---------------------------------------------------------------- C30
Sentinels == {VOID, NAN, EMPTY_STRING, FALSE_VALUE}

\* C30: an observation-only function of the facade (min period, high / low
\* limit, change-by, transform, buffer max count, buffer backup period, JSON
\* extraction, destination, config flag, min / max / mean / stddev queries,
\* buffered-sample search, JSON buffer dump) applied to an entry that is not
\* an observation never calls the resource engine and never aborts: a setter
\* does nothing and a getter or query returns its sentinel.
C30_NonObservationRefused ==
    [][(last'.op \in ObservationOnly
        /\ ent[last'.entry].type # ADMIN_ENTRY_TYPE_OBSERVATION)
          => /\ last'.calls = <<>>
             /\ ~fatal'
             /\ last'.ret \in Sentinels
             /\ ent' = ent
             /\ res' = res]_vars

\* the functions that test the type before they delegate
Checked ==
    {"resTree_SetJsonExtraction", "resTree_GetJsonExtraction", "resTree_QueryMin",
     "resTree_QueryMax", "resTree_QueryMean", "resTree_QueryStdDev",
     "resTree_MarkObservationAsConfig", "resTree_IsObservationConfig",
     "resTree_SetDestination"}
Asserted == {"resTree_ReadBufferJson", "resTree_FindBufferedSampleAfter"}

\* what the facade does on an entry that is not an observation: the checked
\* functions refuse as specified, the two buffer readers abort, and the
\* others call the engine with whatever the entry's union holds
C30_ByFamily ==
    [][(last'.op \in ObservationOnly
        /\ ent[last'.entry].type # ADMIN_ENTRY_TYPE_OBSERVATION)
          => /\ ent' = ent
             /\ res' = res
             /\ IF last'.op \in Checked
                THEN last'.calls = <<>> /\ ~fatal' /\ last'.ret \in Sentinels
                ELSE IF last'.op \in Asserted
                THEN last'.calls = <<>> /\ fatal'
                ELSE Len(last'.calls) = 1 /\ ~fatal']_vars

C30_EngineCalledForInput ==
    /\ last.op = "resTree_SetMinPeriod"
    /\ ent[last.entry].type = ADMIN_ENTRY_TYPE_INPUT
    /\ last.calls # <<>>

C30_AbortOnNamespace ==
    /\ last.op = "resTree_ReadBufferJson"
    /\ ent[last.entry].type = ADMIN_ENTRY_TYPE_NAMESPACE
    /\ fatal

\* ---------------------------------------------------------------- C31
Quoted(s) == <<QUOTE>> \o s \o <<QUOTE, NUL>>

ConvertsAsSpecified(c, s, size) ==
    /\ Len(c.buf) <= size
    /\ IF size >= Len(s) + 3
       THEN c.rc = LE_OK /\ c.buf = Quoted(s)
       ELSE c.rc = LE_OVERFLOW

\* C31: convert_to_json of a string sample with payload s of n bytes returns
\* LE_OK and writes '"' s '"' and a terminator exactly when the buffer has at
\* least n + 3 bytes; with any smaller buffer (0, 1 and 2 bytes included) it
\* returns LE_OVERFLOW; it never writes past the buffer.  Checked for every
\* existing string sample and every buffer size, and on every call made.
C31_ConvertStringToJson ==
    /\ \A s \in SampleIds, size \in ValueBuffSizes :
           (samples.obj[s].used /\ samples.obj[s].pool = StringBasedDataSamplePool)
               => ConvertsAsSpecified(
                      dataSample_ConvertToJson(samples.obj[s].value, StringOf(s),
                                               IO_DATA_TYPE_STRING, size),
                      StringOf(s), size)
    /\ last.op = "dataSample_ConvertToJson" => Len(last.path) <= last.out

\* "hi" was converted into a buffer of 2 bytes: LE_OVERFLOW, nothing written
C31_Witness ==
    /\ last.op = "dataSample_ConvertToJson"
    /\ StringOf(last.entry) = TextHi
    /\ last.out = Len(TextHi)
    /\ last.ret = LE_OVERFLOW
    /\ last.path = <<>>

\* "hi" was converted into a buffer of 5 bytes
C31_WitnessFits ==
    /\ last.op = "dataSample_ConvertToJson"
    /\ last.out = Len(TextHi) + 3
    /\ last.ret = LE_OK
    /\ last.path = Quoted(TextHi)

\* ---------------------------------------------------------------- C33
\* C33: after any sequence of sample operations (create_* with any timestamp,
\* IO_NOW included, set_timestamp with any value, extract_json) no existing
\* sample has IO_NOW as its stored timestamp.
C33_NowNeverStored ==
    \A s \in SampleIds : samples.obj[s].used => samples.obj[s].timestamp # IO_NOW

\* what the constructors do: a sample returned by create_* or extract_json
\* carries the clock's reading when it was asked for IO_NOW, and never IO_NOW
SampleCreateOps ==
    {"dataSample_CreateTrigger", "dataSample_CreateBoolean",
     "dataSample_CreateNumeric", "dataSample_CreateString", "dataSample_CreateJson"}

C33_StampedAtConstruction ==
    [][(last'.op \in SampleCreateOps \cup {"dataSample_ExtractJson"} /\ last'.out # NULL)
          => /\ samples'.obj[last'.out].timestamp # IO_NOW
             /\ (last'.op \in SampleCreateOps /\ last'.base = IO_NOW)
                    => samples'.obj[last'.out].timestamp = Clock]_vars

C33_NowStoredBySetTimestamp ==
    /\ last.op = "dataSample_SetTimestamp"
    /\ last.base = IO_NOW
    /\ samples.obj[last.entry].timestamp = IO_NOW

\* ---------------------------------------------------------------- C32
\* the data type dataSample_ExtractJson reports for the node json_Extract
\* found, known here by its text
NodeDataType(text) ==
    IF text = TextNull THEN IO_DATA_TYPE_TRIGGER
    ELSE IF text = TextTrue THEN IO_DATA_TYPE_BOOLEAN
    ELSE IF text = TextOne THEN IO_DATA_TYPE_NUMERIC
    ELSE IF text = TextHi THEN IO_DATA_TYPE_STRING
    ELSE IO_DATA_TYPE_JSON

\* what a sample s of state smp holds, as a holder taking it for dataType reads it
HoldsNode(smp, s, dataType, text) ==
    IF dataType = IO_DATA_TYPE_TRIGGER
    THEN smp.obj[s].pool = NonStringDataSamplePool /\ smp.obj[s].value = NoValue
    ELSE IF dataType = IO_DATA_TYPE_BOOLEAN
    THEN smp.obj[s].pool = NonStringDataSamplePool /\ smp.obj[s].value = BoolTrue
    ELSE IF dataType = IO_DATA_TYPE_NUMERIC
    THEN smp.obj[s].pool = NonStringDataSamplePool /\ smp.obj[s].value = NumOne
    ELSE /\ smp.obj[s].pool = StringBasedDataSamplePool
         /\ smp.obj[s].stringPtr # NULL
         /\ smp.str[smp.obj[s].stringPtr].bytes = text

\* the sample a successful dataSample_ExtractJson step returned is new, holds
\* one reference and the extracted node, and is reported with the node's type
ExtractedNewSample ==
    /\ ~samples.obj[last'.out].used
    /\ samples'.obj[last'.out].used
    /\ samples'.obj[last'.out].refCount = 1
    /\ last'.out # last'.entry
    /\ last'.ret = NodeDataType(last'.path)
    /\ HoldsNode(samples', last'.out, last'.ret, last'.path)

\* the source sample of a dataSample_ExtractJson step is as it was
SourceUnchanged ==
    /\ samples'.obj[last'.entry] = samples.obj[last'.entry]
    /\ samples'.str[samples.obj[last'.entry].stringPtr]
           = samples.str[samples.obj[last'.entry].stringPtr]

\* a dataSample_ExtractJson step whose extraction failed: nothing is returned
\* and no sample is created
ExtractionFailed == last'.ret = VOID => (last'.out = NULL /\ samples' = samples)

\* C32: extract_json on success returns a newly created sample whose
\* timestamp equals the source sample's timestamp and whose reported type is
\* fixed by the extracted JSON node (null -> trigger, true/false -> bool,
\* number -> numeric, string -> string, object/array -> json); when extraction
\* fails it returns nothing, creates no sample and leaves the source sample
\* (value, timestamp, reference count) unchanged.
C32_ExtractJson ==
    [][last'.op = "dataSample_ExtractJson"
          => /\ SourceUnchanged
             /\ ExtractionFailed
             /\ last'.out # NULL
                    => /\ ExtractedNewSample
                       /\ samples'.obj[last'.out].timestamp
                              = samples.obj[last'.entry].timestamp]_vars

\* C32 for source samples whose timestamp is not the IO_NOW that
\* dataSample_SetTimestamp can store (C33): the same statement holds
C32_ExtractJsonStamped ==
    [][(last'.op = "dataSample_ExtractJson"
            /\ samples.obj[last'.entry].timestamp # IO_NOW)
          => /\ SourceUnchanged
             /\ ExtractionFailed
             /\ last'.out # NULL
                    => /\ ExtractedNewSample
                       /\ samples'.obj[last'.out].timestamp
                              = samples.obj[last'.entry].timestamp]_vars

\* C32: a source sample holding IO_NOW gave a sample stamped with the clock
C32_ExtractedFromNow ==
    /\ last.op = "dataSample_ExtractJson" /\ last.out # NULL
    /\ samples.obj[last.entry].timestamp = IO_NOW
    /\ samples.obj[last.out].timestamp = Clock

\* ---------------------------------------------------------------- C34
\* the samples in use whose payload is the StringPool block p
OwnersOf(smp, p) == {s \in SampleIds : smp.obj[s].used /\ smp.obj[s].stringPtr = p}

\* every payload in use is held once, by one sample in use (no leak), and every
\* payload a sample in use points to is in use (nothing released early)
PayloadsOwned ==
    /\ \A p \in SampleIds :
           samples.str[p].used
               => samples.str[p].refCount = 1 /\ Cardinality(OwnersOf(samples, p)) = 1
    /\ \A s \in SampleIds :
           (samples.obj[s].used /\ samples.obj[s].stringPtr # NULL)
               => samples.str[samples.obj[s].stringPtr].used

\* the le_mem_Release calls of the last operation on StringPool blocks
PayloadReleases(calls) ==
    SelectSeq(calls, LAMBDA c : c.fn = "le_mem_Release" /\ c.type = "string")

\* a le_mem_Release step on a sample releases the sample's payload, once,
\* exactly when the sample held one and the reference dropped was the last
ReleasedWithLastReference ==
    LET s == last'.entry
        p == samples.obj[s].stringPtr
    IN IF samples.obj[s].refCount = 1 /\ p # NULL
       THEN /\ PayloadReleases(last'.calls) =
                   <<[fn |-> "le_mem_Release", arg |-> p, type |-> "string",
                      rv |-> VOID]>>
            /\ ~samples'.str[p].used
            /\ ~samples'.obj[s].used
       ELSE /\ PayloadReleases(last'.calls) = <<>>
            /\ samples'.str = samples.str

\* a create_string or create_json step that returned nothing left no sample
\* and no payload behind and released no payload
NothingLeftBehind ==
    last'.out = NULL => (samples' = samples /\ PayloadReleases(last'.calls) = <<>>)

\* C34: a string/json sample's payload is released exactly once, at the
\* moment the last reference to the sample is released, and never while a
\* reference remains; if the payload cannot be allocated in create_string or
\* create_json, the half-built sample is released, nothing is returned and no
\* payload release is attempted (no leak and no double release under any
\* interleaving of add-ref and release by sharers).
C34_PayloadReleasedOnce ==
    /\ [](PayloadsOwned /\ ~fatal)
    /\ [][/\ last'.op = "le_mem_Release" => ReleasedWithLastReference
          /\ last'.op \in {"dataSample_CreateString", "dataSample_CreateJson"}
                 => NothingLeftBehind
          /\ last'.op \notin {"le_mem_Release", "dataSample_CreateString",
                              "dataSample_CreateJson", "dataSample_ExtractJson"}
                 => samples'.str = samples.str]_vars

\* C34: the last reference to a string sample was released and its payload
\* with it, while another string sample and its payload live on
C34_Witness ==
    /\ last.op = "le_mem_Release"
    /\ ~samples.obj[last.entry].used
    /\ Len(PayloadReleases(last.calls)) = 1
    /\ \E s \in SampleIds : samples.obj[s].used /\ samples.obj[s].stringPtr # NULL

\* C34: a reference to a string sample was released while another remained
C34_WitnessShared ==
    /\ last.op = "le_mem_Release"
    /\ samples.obj[last.entry].used
    /\ samples.obj[last.entry].stringPtr # NULL
    /\ samples.str[samples.obj[last.entry].stringPtr].used

\* C34: create_string could not allocate the payload: the half-built sample
\* was released and nothing returned
C34_WitnessNoPayload ==
    /\ last.op = "dataSample_CreateString" /\ last.out = NULL
    /\ Len(last.calls) = 1
    /\ last.calls[1].fn = "le_mem_Release" /\ last.calls[1].type = "dataSample"
    /\ ~samples.obj[last.calls[1].arg].used

\* ---------------------------------------------------------------- C35
\* the paths looked up around a deletion, from the root
PathsAround == {pObs, pAbsObs, pObsX, pAbsObsX}

\* the machine of a call made in the state a step leads to
MachineAfter == [Machine(MaxBudget, TRUE) EXCEPT !.ent = ent', !.res = res']

\* path resolves, in the state a step leads to, to entry e as it did before,
\* and resTree_GetEntry and resTree_GetResource on it return e
StillResolves(path, e) ==
    /\ resTree_FindEntry(ent', RootPtr, path) = e
    /\ LET g == resTree_GetEntry(MachineAfter, RootPtr, path)
       IN ~g.m.fatal /\ g.out = e
    /\ LET g == resTree_GetResource(MachineAfter, RootPtr, path)
       IN ~g.m.fatal /\ g.out = e

\* C35: deleting a resource does not disturb other resources: delete_io(e) or
\* delete_observation(e) changes the result of find only for e's own path;
\* every other path that resolved to a live entry before the deletion
\* (including paths of e's descendants) still resolves to the same entry
\* afterwards, and get_entry/get_resource on those paths still succeed.
C35_DeletionLocal ==
    [][last'.op \in DeleteOps
          => \A path \in PathsAround :
                 LET before == resTree_FindEntry(ent, RootPtr, path)
                 IN (before \in Ids /\ before # last'.entry)
                        => StillResolves(path, before)]_vars

\* C35 for the paths that do not lead through the deleted entry
C35_DeletionLocalElsewhere ==
    [][last'.op \in DeleteOps
          => \A path \in PathsAround :
                 LET before == resTree_FindEntry(ent, RootPtr, path)
                 IN (before \in Ids /\ before # last'.entry
                         /\ ent[before].parentPtr # last'.entry)
                        => StillResolves(path, before)]_vars

\* C35: /obs was deleted and is a tombstone; its child /obs/x is still in the
\* tree but no longer found
C35_ChildUnreachable ==
    /\ last.op \in DeleteOps
    /\ resTree_IsDeleted(ent, last.entry)
    /\ \E c \in Ids : /\ ent[c].used /\ ent[c].parentPtr = last.entry
                      /\ ~resTree_IsDeleted(ent, c)
                      /\ resTree_FindEntry(ent, RootPtr, pObsX) = NULL

\* ---------------------------------------------------------------- C36
\* the path of entry e from the root, as resTree_GetPath writes it into a
\* buffer of HUB_MAX_RESOURCE_PATH_BYTES
PathOf(e) == resTree_GetPath(ent, HUB_MAX_RESOURCE_PATH_BYTES, RootPtr, e)

\* e, or an entry above it, is a tombstone
RECURSIVE BelowDeleted(_)
BelowDeleted(e) ==
    IF e = NULL THEN FALSE
    ELSE resTree_IsDeleted(ent, e) \/ BelowDeleted(ent[e].parentPtr)

\* looking up the path of e from the root gives e
RoundTrip(e) ==
    /\ PathOf(e).rc = LE_OK
    /\ resTree_FindEntry(ent, RootPtr, PathOf(e).str) = e

\* C36: inverse path round trip: in every reachable state, for every entry e
\* in the tree that is not DELETED, find(root, path_of(e, root)) returns e.
C36_PathRoundTrip ==
    ~fatal => \A e \in Ids : (ent[e].used /\ ~resTree_IsDeleted(ent, e)) => RoundTrip(e)

\* C36 for the entries that have no tombstone above them
C36_PathRoundTripOfReachable ==
    ~fatal => \A e \in Ids : (ent[e].used /\ ~BelowDeleted(e)) => RoundTrip(e)

\* C36: an entry that is not DELETED, below a tombstone, whose path resolves
\* to nothing
C36_LostBelowTombstone ==
    /\ ~fatal
    /\ \E e \in Ids : /\ ent[e].used /\ ~resTree_IsDeleted(ent, e)
                      /\ ent[e].parentPtr # NULL
                      /\ resTree_IsDeleted(ent, ent[e].parentPtr)
                      /\ PathOf(e).str = pAbsObsX
                      /\ resTree_FindEntry(ent, RootPtr, pAbsObsX) = NULL

\* ---------------------------------------------------------------- C37
\* C37: at the instant each change handler is invoked, the tree is in a
\* consistent state in which the notified absolute path resolves to the
\* affected entry, that entry's current type equals the notified entry type,
\* and its resource is still attached: for removals the notification precedes
\* the type change and the release of the resource, for additions it follows
\* the type change and conversion.
C37_HandlerSeesEntry ==
    /\ Len(last.views) = Len(last.notes)
    /\ \A i \in 1 .. Len(last.notes) :
           /\ last.views[i].resolved = last.notes[i].entry
           /\ last.views[i].type = last.notes[i].type
           /\ last.views[i].attached

\* C37 without the lookup: the entry's type is the notified type and its
\* resource is attached, and the notified path resolves to the entry or to
\* nothing
C37_HandlerSeesTypeAndResource ==
    /\ Len(last.views) = Len(last.notes)
    /\ \A i \in 1 .. Len(last.notes) :
           /\ last.views[i].resolved \in {last.notes[i].entry, NULL}
           /\ last.views[i].type = last.notes[i].type
           /\ last.views[i].type \in {ADMIN_ENTRY_TYPE_INPUT, ADMIN_ENTRY_TYPE_OUTPUT,
                                      ADMIN_ENTRY_TYPE_OBSERVATION}
           /\ last.views[i].attached

\* C37: the handlers were told of the removal of /obs/x while /obs is a
\* tombstone, and the notified path resolves to nothing
C37_NotifiedPathUnresolved ==
    /\ last.op \in DeleteOps
    /\ Len(last.notes) = 1
    /\ last.notes[1].op = ADMIN_RESOURCE_REMOVED
    /\ last.notes[1].path = pAbsObsX
    /\ last.views[1].resolved = NULL

\* ---------------------------------------------------------------- C38
\* the absolute paths at which tree e_ holds an input, output or observation
ResourcePaths(e_) ==
    {ExpectedPath(e_, RootPtr, e) :
         e \in {x \in Ids : /\ e_[x].used
                            /\ e_[x].type \in {ADMIN_ENTRY_TYPE_INPUT,
                                               ADMIN_ENTRY_TYPE_OUTPUT,
                                               ADMIN_ENTRY_TYPE_OBSERVATION}}}

\* the notifications of one operation that name path, in order
NotesFor(notes, path) == SelectSeq(notes, LAMBDA n : n.path = path)

\* notifications ns alternate, beginning with an addition exactly when the
\* path held no resource before them (the notification before, if any, was a
\* removal)
Alternates(ns, heldBefore) ==
    \A i \in 1 .. Len(ns) :
        ns[i].op = IF (i % 2 = 1) = heldBefore THEN ADMIN_RESOURCE_REMOVED
                   ELSE ADMIN_RESOURCE_ADDED

\* whether the last notification for a path is an addition, after ns
LastIsAdded(ns, heldBefore) ==
    IF ns = <<>> THEN heldBefore ELSE ns[Len(ns)].op = ADMIN_RESOURCE_ADDED

\* C38: for every absolute path, the sequence of change notifications emitted
\* for that path over any operation sequence that respects the preconditions
\* (delete_io only on inputs/outputs, delete_observation only on observations)
\* strictly alternates added, removed, added, ... starting with added; an
\* entry is of type input, output or observation exactly when the last
\* notification for its path was added.  Stated step by step: no path holds a
\* resource at the start, and each operation's notifications for a path
\* continue the alternation from whether the path held a resource before the
\* operation, and leave the path holding one exactly when their last is an
\* addition.
C38_NotificationsAlternate ==
    /\ [](last.op = "resTree_Init" => ResourcePaths(ent) = {} /\ last.notes = <<>>)
    /\ [][\A path \in ResourcePaths(ent) \cup ResourcePaths(ent')
                          \cup {last'.notes[i].path : i \in 1 .. Len(last'.notes)} :
              LET ns == NotesFor(last'.notes, path)
                  heldBefore == path \in ResourcePaths(ent)
              IN /\ Alternates(ns, heldBefore)
                 /\ ~fatal' => (path \in ResourcePaths(ent')
                                    <=> LastIsAdded(ns, heldBefore))]_vars

\* C38: the removal of the resource at /obs/x was notified and the path holds
\* none now
C38_Witness ==
    /\ last.op \in DeleteOps
    /\ last.notes # <<>>
    /\ last.notes[1].op = ADMIN_RESOURCE_REMOVED /\ last.notes[1].path = pAbsObsX
    /\ pAbsObsX \notin ResourcePaths(ent)

\* C38: an input was created at /obs/x on the placeholder a deletion had left
\* there with its admin settings, and the addition was notified
C38_WitnessAddedAgain ==
    /\ last.op = "resTree_CreateInput"
    /\ last.notes # <<>>
    /\ last.notes[1].op = ADMIN_RESOURCE_ADDED /\ last.notes[1].path = pAbsObsX
    /\ pAbsObsX \in ResourcePaths(ent)
    /\ res[ent[last.out].resourcePtr].admin

\* ---------------------------------------------------------------- C39
\* e is a namespace a caller can obtain through get_entry
ObtainableNamespace(e) ==
    /\ ent[e].used
    /\ ent[e].type = ADMIN_ENTRY_TYPE_NAMESPACE
    /\ ~resTree_IsDeleted(ent, e)

\* the step applied a resource operation of the facade to a namespace (for
\* set_source: as destination or as source)
OnNamespace ==
    \/ /\ last'.op \in ResourceFunctions \cup ObservationOnly
       /\ ObtainableNamespace(last'.entry)
    \/ /\ last'.op = "resTree_SetSource"
       /\ \/ ObtainableNamespace(last'.entry)
          \/ last'.out # NULL /\ ObtainableNamespace(last'.out)

\* the calls of the last operation into the resource engine
EngineCalls(calls) == SelectSeq(calls, LAMBDA c : c.fn # "le_mem_Release")

\* C39: no facade operation ever hands a namespace entry's payload (the
\* snapshot flag bitset that shares storage with the resource handle) to the
\* resource engine as a resource: for every entry of type namespace obtainable
\* through get_entry, each resource operation (attribute setters/getters,
\* default/override, add_push_handler, set_source as destination or as source)
\* either rejects/ignores the call or returns a sentinel without delegating.
C39_NamespaceNeverDelegated ==
    [][OnNamespace => EngineCalls(last'.calls) = <<>>]_vars

\* the functions of the facade that test the entry before they delegate
Guarded ==
    Checked \cup Asserted
        \cup {"resTree_GetCurrentValue", "resTree_GetSource", "resTree_IsMandatory"}

\* C39 for the functions that test the entry first, and for set_source with a
\* namespace as its destination
C39_GuardedNeverDelegate ==
    [][(\/ /\ last'.op \in Guarded
           /\ ObtainableNamespace(last'.entry)
        \/ /\ last'.op = "resTree_SetSource"
           /\ ObtainableNamespace(last'.entry))
          => EngineCalls(last'.calls) = <<>>]_vars

\* C39: add_push_handler on a namespace went to the engine
C39_PushHandlerOnNamespace ==
    /\ last.op = "resTree_AddPushHandler"
    /\ ObtainableNamespace(last.entry)
    /\ last.calls # <<>>
    /\ last.calls[1].fn = "res_AddPushHandler"

\* C39: set_source handed a namespace to the engine as the source
C39_NamespaceAsSource ==
    /\ last.op = "resTree_SetSource"
    /\ last.out # NULL
    /\ ObtainableNamespace(last.out)
    /\ Len(last.calls) = 2
    /\ last.calls[2].type = "source"
====
